---- MODULE Spec2Model ----
(***************************************************************************)
(* A model of the IPPcode21 interpreter interpret.py: the execution engine *)
(* (InstructionExecutor), the frame system (Frames), the data stack        *)
(* (Stack), the program counter, call stack and label map (Instructions)   *)
(* the dynamically typed values (Var), the loader (XMLParser.parse), the   *)
(* statistics (write_stats) and the error exits (exit_err).                *)
(*                                                                         *)
(* Representation.                                                         *)
(*  - A Python attribute that may be None is a sequence of length at most  *)
(*    one: <<>> is None and <<x>> is the object x.                         *)
(*  - A Python str is the sequence of its code points, so "ab" is          *)
(*    <<97, 98>>; the tokens the interpreter itself compares against       *)
(*    ('true', 'false', 'nil', type names, opcodes, label names) are kept  *)
(*    as TLA+ strings.                                                     *)
(*  - A Python float is an exact rational [n, d] in lowest terms with      *)
(*    d > 0; the inputs are chosen so that every result is exactly         *)
(*    representable as a double.                                           *)
(*  - A variable identifier FRAME@name is the pair produced by             *)
(*    id.split('@', 1): [frame |-> FRAME, name |-> name].                  *)
(*  - A frame (a dict from names to Var) is a function whose DOMAIN is the *)
(*    set of defined names.                                                *)
(*  - The program text is the interpreter's input.  Where no statistics    *)
(*    file is asked for, each dispatch draws the instruction found at the  *)
(*    current index from a bounded instruction set, and the positions of   *)
(*    the LABEL instructions are fixed by the label map chosen in Init.    *)
(*    Where the program is loaded or its statistics are written, the XML   *)
(*    document is part of the state and the instructions are fetched from  *)
(*    it (Parse, Dispatch, Finish).                                        *)
(***************************************************************************)
EXTENDS Integers, Sequences, FiniteSets, TLC

VARIABLES
    pc,              \* Instructions._pc
    calls,           \* Instructions._calls
    labels,          \* Instructions._labels
    executed_count,  \* Instructions.executed_count
    lf_stack,        \* Frames._lf_stack
    gf,              \* Frames._gf
    tf,              \* Frames._tf
    tf_created,      \* Frames._tf_created
    init_vars,       \* Frames._init_vars
    stack,           \* Stack._stack
    input_file,      \* InstructionExecutor.input_file
    inst,            \* the local inst of InstructionExecutor.interpret
    exit_code,       \* the status the process exited with, NoExit while running
    source_file,     \* the file named by --source=, as XMLParser.parse finds it
    xmlroot,         \* InstructionExecutor.xmlroot, <<>> until parse has returned
    stats_path,      \* InstructionExecutor.stats_path
    stats_group,     \* InstructionExecutor.stats_group
    exec_per_inst,   \* InstructionExecutor.exec_per_inst, in insertion order
    stats_file,      \* the lines of the statistics file, <<>> while it is not created
    stderr           \* what was printed to sys.stderr, one entry per message

vars == <<pc, calls, labels, executed_count, lf_stack, gf, tf, tf_created,
          init_vars, stack, input_file, inst, exit_code, source_file, xmlroot,
          stats_path, stats_group, exec_per_inst, stats_file, stderr>>

(***************************************************************************)
(* Bounds of the model.                                                    *)
(***************************************************************************)
ProgLen == 10
MaxFrameSteps == 8
MaxJumpSteps == 4
MaxArithSteps == 4
MaxReadSteps == 3
MaxVarsSteps == 9
MaxStatsLen == 3
MaxStatsSteps == 5
MaxStringSteps == 4
MaxCompareSteps == 3
MaxElements == 2
MaxStackSteps == 6
MaxSlotSteps == 7
MaxProgramLen == 3
MaxProgramSteps == 5
MaxOperandSteps == 4

(***************************************************************************)
(* Exit codes (class Code) and the status of an uncaught Python exception. *)
(***************************************************************************)
SUCCESS == 0
BAD_PARAM == 10
OPEN_ERR == 11
WRITE_ERR == 12
BAD_XML == 31
BAD_STRUCT == 32
UNDEF_REDEF == 52
BAD_OPERAND_TYPE == 53
UNDEF_VAR == 54
UNDEF_FRAME == 55
MISSING_VAL == 56
BAD_OPERAND_VAL == 57
STRING_ERR == 58
UNCAUGHT == 1
NoExit == -1

(***************************************************************************)
(* Values.                                                                 *)
(***************************************************************************)
None == "None"

\* Var(type_, value); the fields are named type and value as in the source
Var(type_, v) == [type |-> type_, value |-> <<v>>]

UninitVar == [type |-> None, value |-> <<>>]

Val(var) == var.value[1]

Abs(n) == IF n < 0 THEN -n ELSE n

RECURSIVE Gcd(_, _)
Gcd(a, b) == IF b = 0 THEN a ELSE Gcd(b, a % b)

\* the rational num/den (den # 0) in lowest terms with a positive denominator
Float(num, den) ==
    LET g == Gcd(Abs(num), Abs(den))
        s == IF den < 0 THEN -1 ELSE 1
    IN [n |-> (s * num) \div g, d |-> (s * den) \div g]

FloatAdd(x, y) == Float(x.n * y.d + y.n * x.d, x.d * y.d)
FloatSub(x, y) == Float(x.n * y.d - y.n * x.d, x.d * y.d)
FloatMul(x, y) == Float(x.n * y.n, x.d * y.d)
FloatDiv(x, y) == Float(x.n * y.d, x.d * y.n)
FloatLess(x, y) == x.n * y.d < y.n * x.d

\* int(f): truncation toward zero
FloatToInt(x) == IF x.n >= 0 THEN x.n \div x.d ELSE -((-x.n) \div x.d)

\* the order of Python str: lexicographic by code point
RECURSIVE StrLess(_, _)
StrLess(a, b) ==
    IF b = <<>> THEN FALSE
    ELSE IF a = <<>> THEN TRUE
    ELSE IF Head(a) # Head(b) THEN Head(a) < Head(b)
    ELSE StrLess(Tail(a), Tail(b))

\* 'true' / 'false' as the interpreter stores booleans
BoolTok(b) == IF b THEN "true" ELSE "false"

\* the result of an operation that either returns a Var or calls exit_err
Ok(var) == [err |-> 0, var |-> var]
Err(code) == [err |-> code, var |-> UninitVar]

(***************************************************************************)
(* class Var: the operators of the dynamically typed values.               *)
(***************************************************************************)
\* self.value + second.value, for the types __add__ lets through
PyAdd(type_, x, y) ==
    IF type_ = "int" THEN x + y
    ELSE IF type_ = "float" THEN FloatAdd(x, y)
    ELSE x \o y

Var__add__(self, second) ==
    IF self.type = second.type
    THEN IF self.type \in {"int", "float", "string"}
         THEN Ok(Var(self.type, PyAdd(self.type, Val(self), Val(second))))
         ELSE Err(BAD_OPERAND_TYPE)
    ELSE Err(BAD_OPERAND_TYPE)

Var__sub__(self, second) ==
    IF self.type = second.type
    THEN IF self.type \in {"int", "float"}
         THEN Ok(Var(self.type, IF self.type = "int"
                                THEN Val(self) - Val(second)
                                ELSE FloatSub(Val(self), Val(second))))
         ELSE Err(BAD_OPERAND_TYPE)
    ELSE Err(BAD_OPERAND_TYPE)

Var__mul__(self, second) ==
    IF self.type = second.type
    THEN IF self.type \in {"int", "float"}
         THEN Ok(Var(self.type, IF self.type = "int"
                                THEN Val(self) * Val(second)
                                ELSE FloatMul(Val(self), Val(second))))
         ELSE Err(BAD_OPERAND_TYPE)
    ELSE Err(BAD_OPERAND_TYPE)

\* val1 // val2 of Python ints is the floor of the quotient, as \div is
\* __floordiv__ that rounds the quotient toward zero
Var__floordiv___Truncates(self, second) ==
    IF self.type = second.type
    THEN IF self.type = "int"
         THEN IF Val(second) = 0
              THEN Err(BAD_OPERAND_VAL)
              ELSE Ok(Var(self.type,
                          IF (Val(self) < 0) = (Val(second) < 0)
                          THEN Abs(Val(self)) \div Abs(Val(second))
                          ELSE 0 - (Abs(Val(self)) \div Abs(Val(second)))))
         ELSE Err(BAD_OPERAND_TYPE)
    ELSE Err(BAD_OPERAND_TYPE)

Var__floordiv__(self, second) ==
    IF self.type = second.type
    THEN IF self.type = "int"
         THEN IF Val(second) = 0
              THEN Err(BAD_OPERAND_VAL)
              ELSE Ok(Var(self.type, IF Val(second) > 0
                                     THEN Val(self) \div Val(second)
                                     ELSE (-Val(self)) \div (-Val(second))))
         ELSE Err(BAD_OPERAND_TYPE)
    ELSE Err(BAD_OPERAND_TYPE)

Var__truediv__(self, second) ==
    IF self.type = second.type
    THEN IF self.type = "float"
         THEN IF Val(second).n = 0
              THEN Err(BAD_OPERAND_VAL)
              ELSE Ok(Var(self.type, FloatDiv(Val(self), Val(second))))
         ELSE Err(BAD_OPERAND_TYPE)
    ELSE Err(BAD_OPERAND_TYPE)

Var__lt__(self, second) ==
    IF self.type = second.type
    THEN IF self.type = "int"
         THEN Ok(Var("bool", BoolTok(Val(self) < Val(second))))
         ELSE IF self.type = "float"
         THEN Ok(Var("bool", BoolTok(FloatLess(Val(self), Val(second)))))
         ELSE IF self.type = "bool"
         THEN Ok(Var("bool", BoolTok(Val(self) = "false" /\ Val(second) = "true")))
         ELSE IF self.type = "string"
         THEN Ok(Var("bool", BoolTok(StrLess(Val(self), Val(second)))))
         ELSE Err(BAD_OPERAND_TYPE)
    ELSE Err(BAD_OPERAND_TYPE)

\* __gt__ that takes every true bool for the greater one
Var__gt___AnyTrue(self, second) ==
    IF self.type = second.type
    THEN IF self.type = "int"
         THEN Ok(Var("bool", BoolTok(Val(self) > Val(second))))
         ELSE IF self.type = "float"
         THEN Ok(Var("bool", BoolTok(FloatLess(Val(second), Val(self)))))
         ELSE IF self.type = "bool"
         THEN Ok(Var("bool", BoolTok(Val(self) = "true")))
         ELSE IF self.type = "string"
         THEN Ok(Var("bool", BoolTok(StrLess(Val(second), Val(self)))))
         ELSE Err(BAD_OPERAND_TYPE)
    ELSE Err(BAD_OPERAND_TYPE)

Var__gt__(self, second) ==
    IF self.type = second.type
    THEN IF self.type = "int"
         THEN Ok(Var("bool", BoolTok(Val(self) > Val(second))))
         ELSE IF self.type = "float"
         THEN Ok(Var("bool", BoolTok(FloatLess(Val(second), Val(self)))))
         ELSE IF self.type = "bool"
         THEN Ok(Var("bool", BoolTok(Val(self) = "true" /\ Val(second) = "false")))
         ELSE IF self.type = "string"
         THEN Ok(Var("bool", BoolTok(StrLess(Val(second), Val(self)))))
         ELSE Err(BAD_OPERAND_TYPE)
    ELSE Err(BAD_OPERAND_TYPE)

\* __eq__ that refuses to compare nil with a value of another type
Var__eq___NilStrict(self, second) ==
    IF self.type = second.type
    THEN Ok(Var("bool", BoolTok(Val(self) = Val(second))))
    ELSE Err(BAD_OPERAND_TYPE)

Var__eq__(self, second) ==
    IF self.type = second.type
    THEN IF self.type \in {"int", "float"}
         THEN Ok(Var("bool", BoolTok(Val(self) = Val(second))))
         ELSE IF self.type \in {"string", "bool", "nil"}
         THEN Ok(Var("bool", BoolTok(Val(self) = Val(second))))
         ELSE Err(BAD_OPERAND_TYPE)
    ELSE IF self.type = "nil" \/ second.type = "nil"
    THEN Ok(Var("bool", "false"))
    ELSE Err(BAD_OPERAND_TYPE)

Var__ne__(self, second) ==
    IF self.type = second.type
    THEN IF self.type \in {"int", "float"}
         THEN Ok(Var("bool", BoolTok(Val(self) # Val(second))))
         ELSE IF self.type \in {"string", "bool", "nil"}
         THEN Ok(Var("bool", BoolTok(Val(self) # Val(second))))
         ELSE Err(BAD_OPERAND_TYPE)
    ELSE IF self.type = "nil" \/ second.type = "nil"
    THEN Ok(Var("bool", "true"))
    ELSE Err(BAD_OPERAND_TYPE)

Var__and__(self, second) ==
    IF self.type = second.type
    THEN IF self.type = "bool"
         THEN Ok(Var("bool", BoolTok(Val(self) = "true" /\ Val(second) = "true")))
         ELSE Err(BAD_OPERAND_TYPE)
    ELSE Err(BAD_OPERAND_TYPE)

Var__or__(self, second) ==
    IF self.type = second.type
    THEN IF self.type = "bool"
         THEN Ok(Var("bool", BoolTok(Val(self) = "true" \/ Val(second) = "true")))
         ELSE Err(BAD_OPERAND_TYPE)
    ELSE Err(BAD_OPERAND_TYPE)

Var__invert__(self) ==
    IF self.type = "bool"
    THEN Ok(Var("bool", BoolTok(Val(self) = "false")))
    ELSE Err(BAD_OPERAND_TYPE)

(***************************************************************************)
(* The interpreter state as one record, so that the methods below are      *)
(* operators from a state to the state they leave behind.                  *)
(***************************************************************************)
State ==
    [pc |-> pc, calls |-> calls, labels |-> labels,
     executed_count |-> executed_count, lf_stack |-> lf_stack, gf |-> gf,
     tf |-> tf, tf_created |-> tf_created, init_vars |-> init_vars,
     stack |-> stack, input_file |-> input_file, inst |-> inst,
     exit_code |-> exit_code, source_file |-> source_file, xmlroot |-> xmlroot,
     stats_path |-> stats_path, stats_group |-> stats_group,
     exec_per_inst |-> exec_per_inst, stats_file |-> stats_file,
     stderr |-> stderr]

\* print(text, file=sys.stderr).  The texts are not modelled: an entry says
\* what kind of message was printed.
print_stderr(s, entry) == [s EXCEPT !.stderr = Append(@, entry)]

\* exit_err(code, message) with a message: the else branch prints it
exit_err(s, code) == [print_stderr(s, "Error") EXCEPT !.exit_code = code]

\* exit_err(code), message == '': the text of err_messages[code] is assigned
\* to the local message and nothing is printed
exit_err_blank(s, code) == [s EXCEPT !.exit_code = code]

\* an exception nothing catches: the interpreter dies with a traceback
uncaught(s) == [print_stderr(s, "Traceback") EXCEPT !.exit_code = UNCAUGHT]

(***************************************************************************)
(* class Frames                                                            *)
(***************************************************************************)
EmptyFrame == [n \in {} |-> UninitVar]

\* frame[var_name] = var
Put(frame, var_name, var) ==
    [n \in (DOMAIN frame) \cup {var_name} |->
        IF n = var_name THEN var ELSE frame[n]]

get_gf(s) == s.gf

get_lf(s) ==
    IF Len(s.lf_stack) > 0 THEN s.lf_stack[Len(s.lf_stack)] ELSE EmptyFrame

get_tf(s) == s.tf

\* sum(var.value is not None for var in frame.values())
InitCount(frame) == Cardinality({n \in DOMAIN frame : frame[n].value # <<>>})

_check_init_vars(s) ==
    LET count == InitCount(get_tf(s)) + InitCount(get_lf(s)) + InitCount(get_gf(s))
    IN IF count > s.init_vars THEN [s EXCEPT !.init_vars = count] ELSE s

createframe(s) == [s EXCEPT !.tf = EmptyFrame, !.tf_created = TRUE]

\* pushframe that leaves the pushed variables in the TF mapping as well
pushframe_KeepsTf(s) ==
    IF ~s.tf_created
    THEN exit_err(s, UNDEF_FRAME)
    ELSE [s EXCEPT !.lf_stack = Append(@, s.tf),
                   !.tf_created = FALSE]

\* pushframe that forgets to clear the TF-exists flag
pushframe_KeepsFlag(s) ==
    IF ~s.tf_created
    THEN exit_err(s, UNDEF_FRAME)
    ELSE [s EXCEPT !.lf_stack = Append(@, s.tf),
                   !.tf = EmptyFrame]

pushframe(s) ==
    IF ~s.tf_created
    THEN exit_err(s, UNDEF_FRAME)
    ELSE [s EXCEPT !.lf_stack = Append(@, s.tf),
                   !.tf = EmptyFrame,
                   !.tf_created = FALSE]

\* popframe that takes the oldest local frame instead of the newest
popframe_Oldest(s) ==
    IF Len(s.lf_stack) = 0
    THEN exit_err(s, UNDEF_FRAME)
    ELSE _check_init_vars(
            [s EXCEPT !.tf = s.lf_stack[1],
                      !.lf_stack = SubSeq(@, 2, Len(@)),
                      !.tf_created = TRUE])

\* popframe that does not count the initialized variables
popframe_NoCount(s) ==
    IF Len(s.lf_stack) = 0
    THEN exit_err(s, UNDEF_FRAME)
    ELSE [s EXCEPT !.tf = s.lf_stack[Len(s.lf_stack)],
                   !.lf_stack = SubSeq(@, 1, Len(@) - 1),
                   !.tf_created = TRUE]

\* popframe that forgets to set the TF-exists flag
popframe_NoFlag(s) ==
    IF Len(s.lf_stack) = 0
    THEN exit_err(s, UNDEF_FRAME)
    ELSE _check_init_vars(
            [s EXCEPT !.tf = s.lf_stack[Len(s.lf_stack)],
                      !.lf_stack = SubSeq(@, 1, Len(@) - 1)])

popframe(s) ==
    IF Len(s.lf_stack) = 0
    THEN exit_err(s, UNDEF_FRAME)
    ELSE _check_init_vars(
            [s EXCEPT !.tf = s.lf_stack[Len(s.lf_stack)],
                      !.lf_stack = SubSeq(@, 1, Len(@) - 1),
                      !.tf_created = TRUE])

\* SelectFrame that takes TF for live whether or not it was created
SelectFrame_NoTfCheck(s, id) ==
    IF id.frame = "LF"
    THEN IF Len(s.lf_stack) = 0
         THEN [err |-> UNDEF_FRAME, frame |-> EmptyFrame]
         ELSE [err |-> 0, frame |-> s.lf_stack[Len(s.lf_stack)]]
    ELSE IF id.frame = "TF"
    THEN [err |-> 0, frame |-> s.tf]
    ELSE [err |-> 0, frame |-> s.gf]

\* the frame an identifier addresses: 0 and the dict, or the code of the
\* exit_err that the frame selection of defvar and getvar ends with
SelectFrame(s, id) ==
    IF id.frame = "LF"
    THEN IF Len(s.lf_stack) = 0
         THEN [err |-> UNDEF_FRAME, frame |-> EmptyFrame]
         ELSE [err |-> 0, frame |-> s.lf_stack[Len(s.lf_stack)]]
    ELSE IF id.frame = "TF"
    THEN IF ~s.tf_created
         THEN [err |-> UNDEF_FRAME, frame |-> EmptyFrame]
         ELSE [err |-> 0, frame |-> s.tf]
    ELSE [err |-> 0, frame |-> s.gf]

\* frame[var_name] = var in the dict that SelectFrame found
StoreSlot(s, id, var) ==
    IF id.frame = "LF"
    THEN [s EXCEPT !.lf_stack[Len(s.lf_stack)] = Put(@, id.name, var)]
    ELSE IF id.frame = "TF"
    THEN [s EXCEPT !.tf = Put(@, id.name, var)]
    ELSE [s EXCEPT !.gf = Put(@, id.name, var)]

\* defvar that overwrites a variable that is already defined
defvar_NoRedefCheck(s, id) ==
    LET sel == SelectFrame(s, id)
    IN IF sel.err # 0 THEN exit_err(s, sel.err)
       ELSE StoreSlot(s, id, UninitVar)

defvar(s, id) ==
    LET sel == SelectFrame(s, id)
    IN IF sel.err # 0 THEN exit_err(s, sel.err)
       ELSE IF id.name \in DOMAIN sel.frame THEN exit_err(s, UNDEF_REDEF)
       ELSE StoreSlot(s, id, UninitVar)

\* getvar returns (frame, var_name); every caller then reads frame[var_name],
\* which is the var of the result
getvar(s, id, check_init) ==
    LET sel == SelectFrame(s, id)
    IN IF sel.err # 0 THEN Err(sel.err)
       ELSE IF id.name \notin DOMAIN sel.frame THEN Err(UNDEF_VAR)
       ELSE IF check_init /\ (sel.frame[id.name].type = None
                              \/ sel.frame[id.name].value = <<>>)
       THEN Err(MISSING_VAL)
       ELSE Ok(sel.frame[id.name])

\* setvar that assigns into the Var object of the slot, so that every global
\* slot that holds the same object sees the new value
setvar_Shared(s, id, var) ==
    LET r == getvar(s, id, FALSE)
    IN IF r.err # 0 THEN exit_err(s, r.err)
       ELSE LET t == StoreSlot(s, id, var)
            IN _check_init_vars(
                   [t EXCEPT !.gf = [n \in DOMAIN @ |->
                       IF /\ r.var.value # <<>>
                          /\ s.gf[n].type = r.var.type
                          /\ s.gf[n].value = r.var.value
                       THEN var ELSE @[n]]])

setvar(s, id, var) ==
    LET r == getvar(s, id, FALSE)
    IN IF r.err # 0 THEN exit_err(s, r.err)
       ELSE _check_init_vars(StoreSlot(s, id, var))

const_var(s, arg, check_init) ==
    IF arg.type \in {"int", "string", "bool", "nil", "float"}
    THEN Ok(Var(arg.type, arg.value))
    ELSE getvar(s, arg.value, check_init)

(***************************************************************************)
(* class Stack                                                             *)
(***************************************************************************)
pushs(s, var) == [s EXCEPT !.stack = Append(@, var)]

\* pops: the popped Var and the stack left, or MISSING_VAL
pops(s) ==
    IF Len(s.stack) = 0
    THEN [err |-> MISSING_VAL, var |-> UninitVar, s |-> s]
    ELSE [err |-> 0, var |-> s.stack[Len(s.stack)],
          s |-> [s EXCEPT !.stack = SubSeq(@, 1, Len(@) - 1)]]

clears(s) == [s EXCEPT !.stack = <<>>]

(***************************************************************************)
(* class Instructions                                                      *)
(***************************************************************************)
label_exists(s, label) == label \in DOMAIN s.labels

jump(s, label) ==
    IF ~label_exists(s, label)
    THEN exit_err(s, UNDEF_REDEF)
    ELSE [s EXCEPT !.pc = s.labels[label]]

get_pc(s) == s.pc

call(s, label) == jump([s EXCEPT !.calls = Append(@, get_pc(s))], label)

\* return_ that takes the oldest saved position instead of the newest
return_Fifo(s) ==
    IF Len(s.calls) = 0
    THEN exit_err(s, MISSING_VAL)
    ELSE [s EXCEPT !.pc = s.calls[1],
                   !.calls = SubSeq(@, 2, Len(@))]

\* return_ that goes on at the current position when no call is open
return_Unchecked(s) ==
    IF Len(s.calls) = 0
    THEN s
    ELSE [s EXCEPT !.pc = s.calls[Len(s.calls)],
                   !.calls = SubSeq(@, 1, Len(@) - 1)]

return_(s) ==
    IF Len(s.calls) = 0
    THEN exit_err(s, MISSING_VAL)
    ELSE [s EXCEPT !.pc = s.calls[Len(s.calls)],
                   !.calls = SubSeq(@, 1, Len(@) - 1)]

\* dec_executed that leaves the counter alone
dec_executed_Keeps(s) == s

dec_executed(s) == [s EXCEPT !.executed_count = @ - 1]

(***************************************************************************)
(* Text conversions used by READ and INT2CHAR.  Lines are sequences of     *)
(* code points; the lines of the input sets consist of an optional sign,   *)
(* hexadecimal digits and letters that no numeric literal contains, the    *)
(* part of the grammars of int() and float.fromhex() modelled here.        *)
(***************************************************************************)
IsDigit(c) == c \in 48..57

HexDigitValue(c) ==
    IF c \in 48..57 THEN c - 48
    ELSE IF c \in 97..102 THEN c - 87
    ELSE IF c \in 65..70 THEN c - 55
    ELSE -1

RECURSIVE BaseValue(_, _, _)
BaseValue(digits, base, acc) ==
    IF digits = <<>> THEN acc
    ELSE BaseValue(Tail(digits), base, acc * base + HexDigitValue(Head(digits)))

Unsigned(text) ==
    IF text # <<>> /\ Head(text) \in {43, 45} THEN Tail(text) ELSE text

Sign(text) == IF text # <<>> /\ Head(text) = 45 THEN -1 ELSE 1

\* int(text): ok is FALSE where Python raises ValueError
ParseInt(text) ==
    LET digits == Unsigned(text)
    IN IF digits # <<>> /\ \A i \in 1..Len(digits) : IsDigit(digits[i])
       THEN [ok |-> TRUE, value |-> Sign(text) * BaseValue(digits, 10, 0)]
       ELSE [ok |-> FALSE, value |-> 0]

\* float.fromhex(text): ok is FALSE where Python raises ValueError
ParseHexFloat(text) ==
    LET digits == Unsigned(text)
    IN IF digits # <<>> /\ \A i \in 1..Len(digits) : HexDigitValue(digits[i]) >= 0
       THEN [ok |-> TRUE, value |-> Float(Sign(text) * BaseValue(digits, 16, 0), 1)]
       ELSE [ok |-> FALSE, value |-> Float(0, 1)]

\* a comparison that leaves the case of the line alone
Upper_NoFold(text) == text

\* str.upper() on the ASCII letters
Upper(text) ==
    [i \in 1..Len(text) |-> IF text[i] \in 97..122 THEN text[i] - 32 ELSE text[i]]

TRUE_TEXT == <<84, 82, 85, 69>>

\* chr(n) returns for n in range(0x110000) and raises ValueError for every
\* other n that fits a C int, as all integers of the model do
ChrOk(n) == n >= 0 /\ n < 1114112

(***************************************************************************)
(* The XML document.  An element is a record of its tag, its attributes in *)
(* document order and its children; an instruction element is a record of  *)
(* its opcode attribute, its order attribute as written, a text, and its   *)
(* arg elements in the order of their tags.  An arg element is a record of *)
(* its type attribute and its value: for the type int the text of the      *)
(* element as written, <<>> when it has none (arg.text is None), for every *)
(* other type the value that _inst_syntax leaves in the dict.              *)
(***************************************************************************)
Attr(name, value) == [name |-> name, value |-> value]

Element(tag, attrib, children) ==
    [tag |-> tag, attrib |-> attrib, children |-> children]

InstructionElement(opcode, order, args) ==
    [opcode |-> opcode, order |-> order, args |-> args]

\* <argN type="int">text</argN>
IntText(text) == [type |-> "int", value |-> <<text>>]

\* <argN type="int"></argN> and <argN type="int"/>
IntNoText == [type |-> "int", value |-> <<>>]

\* str(n) for n >= 0
RECURSIVE DecimalText(_)
DecimalText(n) ==
    IF n < 10 THEN <<48 + n>> ELSE DecimalText(n \div 10) \o <<48 + (n % 10)>>

\* the text IPPcode21
IPPcode21 == <<73, 80, 80, 99, 111, 100, 101, 50, 49>>

IPPCODE21 == <<73, 80, 80, 67, 79, 68, 69, 50, 49>>

\* str.upper() on an opcode attribute: the opcodes of the programs modelled
\* are written in upper case, except for defvar, label and Move
OpcodeUpper(opcode) ==
    IF opcode = "defvar" THEN "DEFVAR"
    ELSE IF opcode = "label" THEN "LABEL"
    ELSE IF opcode = "Move" THEN "MOVE"
    ELSE opcode

(***************************************************************************)
(* InstructionExecutor.write_stats and the counting of interpret.          *)
(* stats_path is "" when no statistics file was asked for (False, or the   *)
(* empty path of --stats=); open() fails for the path UnwritablePath.      *)
(* exec_per_inst is the sequence of the dict's items, [opcode, count].     *)
(***************************************************************************)
NoStatsPath == ""

WritablePath == "stats.txt"

UnwritablePath == "/nonexistent/stats.txt"

\* exec_per_inst[opcode] += 1, or = 1 for a new key, once the method of the
\* instruction has returned.  write_stats is the only reader of the dict
\* and reads it only with a stats_path, so without one the dict is left
\* empty here.
count_executed(s, opcode) ==
    IF s.exit_code # NoExit \/ s.stats_path = NoStatsPath THEN s
    ELSE IF \E k \in 1..Len(s.exec_per_inst) : s.exec_per_inst[k].opcode = opcode
    THEN [s EXCEPT !.exec_per_inst =
            [k \in 1..Len(@) |->
                IF @[k].opcode = opcode
                THEN [opcode |-> opcode, count |-> @[k].count + 1]
                ELSE @[k]]]
    ELSE [s EXCEPT !.exec_per_inst = Append(@, [opcode |-> opcode, count |-> 1])]

\* del(self.exec_per_inst[...]) for LABEL, BREAK and DPRINT
NotCounted(item) == item.opcode \in {"LABEL", "BREAK", "DPRINT"}

Counted(item) == ~NotCounted(item)

\* the place of item in a list sorted by count: behind every item whose
\* count is not greater, as the stable sort puts it
SortedInsert(items, item) ==
    LET n == Cardinality({k \in 1..Len(items) : items[k].count <= item.count})
    IN SubSeq(items, 1, n) \o <<item>> \o SubSeq(items, n + 1, Len(items))

\* sorted(items, key=lambda item: item[1])
RECURSIVE sorted(_)
sorted(items) ==
    IF items = <<>> THEN <<>>
    ELSE SortedInsert(sorted(SubSeq(items, 1, Len(items) - 1)), items[Len(items)])

reversed(items) == [k \in 1..Len(items) |-> items[Len(items) + 1 - k]]

\* min(min_order, int(inst.attrib['order'])) over insts
RECURSIVE MinOrder(_)
MinOrder(insts) ==
    LET order == ParseInt(insts[1].order).value
    IN IF Len(insts) = 1 THEN order
       ELSE LET rest == MinOrder(Tail(insts))
            IN IF order < rest THEN order ELSE rest

\* stat_file.write(...)
WriteLine(s, n) == [s EXCEPT !.stats_file = <<@[1] \o <<n>>>>]

\* the loop over stats_group inside the with block; min_order is <<>> when
\* the local was never assigned, and '--hot' then raises UnboundLocalError,
\* which the except clause turns into WRITE_ERR
RECURSIVE WriteGroup(_, _, _)
WriteGroup(s, group, min_order) ==
    IF group = <<>> THEN s
    ELSE IF Head(group) = "--insts"
    THEN WriteGroup(WriteLine(s, s.executed_count), Tail(group), min_order)
    ELSE IF Head(group) = "--hot"
    THEN IF min_order = <<>> THEN exit_err_blank(s, WRITE_ERR)
         ELSE WriteGroup(WriteLine(s, min_order[1]), Tail(group), min_order)
    ELSE IF Head(group) = "--vars"
    THEN WriteGroup(WriteLine(s, s.init_vars), Tail(group), min_order)
    ELSE WriteGroup(s, Tail(group), min_order)

write_stats(s) ==
    IF s.stats_path = NoStatsPath THEN s
    ELSE
    LET counted == Len(s.exec_per_inst) > 0
        most_exec == s.exec_per_inst[1].opcode
        \* xmlroot.findall('.//instruction[@opcode="{most_exec}"]')
        IsMostExec(e) == e.opcode = most_exec
        insts == SelectSeq(s.xmlroot[1].children, IsMostExec)
    IN IF counted /\ insts = <<>>
       THEN uncaught(s)          \* insts[0] raises IndexError outside the try
       ELSE IF s.stats_path = UnwritablePath
       THEN exit_err_blank(s, WRITE_ERR)
       ELSE WriteGroup([s EXCEPT !.stats_file = <<<<>>>>], s.stats_group,
                       IF counted THEN <<MinOrder(insts)>> ELSE <<>>)

\* interpret once next() has returned None
end_of_program(s) ==
    LET s1 == [s EXCEPT !.exec_per_inst = reversed(sorted(SelectSeq(@, Counted)))]
        s2 == write_stats(s1)
    IN IF s2.exit_code # NoExit THEN s2 ELSE exit_err_blank(s2, SUCCESS)

(***************************************************************************)
(* class InstructionExecutor: one operator per _OPCODE method.  args is    *)
(* the list of argument dicts {'type': ..., 'value': ...} of the           *)
(* instruction; args[1] here is args[0] of the source.                     *)
(***************************************************************************)
_MOVE(s, args) ==
    IF args[2].type \in {"int", "string", "bool", "nil", "float"}
    THEN setvar(s, args[1].value, Var(args[2].type, args[2].value))
    ELSE LET r == getvar(s, args[2].value, TRUE)
         IN IF r.err # 0 THEN exit_err(s, r.err)
            ELSE setvar(s, args[1].value, r.var)

_CREATEFRAME(s, args) == createframe(s)

_PUSHFRAME(s, args) == pushframe(s)

_POPFRAME(s, args) == popframe(s)

_DEFVAR(s, args) == defvar(s, args[1].value)

_CALL(s, args) == call(s, args[1].value)

_RETURN(s, args) == return_(s)

_PUSHS(s, args) ==
    IF args[1].type \in {"int", "string", "bool", "nil", "float"}
    THEN pushs(s, Var(args[1].type, args[1].value))
    ELSE LET r == getvar(s, args[1].value, TRUE)
         IN IF r.err # 0 THEN exit_err(s, r.err)
            ELSE pushs(s, r.var)

_POPS(s, args) ==
    LET p == pops(s)
    IN IF p.err # 0 THEN exit_err(s, p.err)
       ELSE setvar(p.s, args[1].value, p.var)

\* The two source operands of a three-address method, read in order: the
\* first failure is the one reported.
Operands(s, args) ==
    LET r1 == const_var(s, args[2], TRUE)
    IN IF r1.err # 0 THEN [err |-> r1.err, symb1 |-> UninitVar, symb2 |-> UninitVar]
       ELSE LET r2 == const_var(s, args[3], TRUE)
            IN [err |-> r2.err, symb1 |-> r1.var, symb2 |-> r2.var]

\* The two operands of a stack method: symb2 is popped first, then symb1; s is
\* the state the pops leave.
Popped(s) ==
    LET p2 == pops(s)
    IN IF p2.err # 0
       THEN [err |-> p2.err, symb1 |-> UninitVar, symb2 |-> UninitVar, s |-> s]
       ELSE LET p1 == pops(p2.s)
            IN [err |-> p1.err, symb1 |-> p1.var, symb2 |-> p2.var, s |-> p1.s]

\* setvar(args[0]['value'], <Var operator>), the operator possibly exiting
\* setvar called before the operator is applied: the destination is looked up
\* first
Store_DestinationFirst(s, id, r) ==
    LET d == getvar(s, id, FALSE)
    IN IF d.err # 0 THEN exit_err(s, d.err)
       ELSE IF r.err # 0 THEN exit_err(s, r.err)
       ELSE setvar(s, id, r.var)

Store(s, id, r) == IF r.err # 0 THEN exit_err(s, r.err) ELSE setvar(s, id, r.var)

\* pushs(<Var operator>), the operator possibly exiting
Push(s, r) == IF r.err # 0 THEN exit_err(s, r.err) ELSE pushs(s, r.var)

\* the type test of the arithmetic methods, two strings admitted as well
BothIntOrBothFloat_OrString(symb1, symb2) ==
    \/ symb1.type = "int" /\ symb2.type = "int"
    \/ symb1.type = "float" /\ symb2.type = "float"
    \/ symb1.type = "string" /\ symb2.type = "string"

BothIntOrBothFloat(symb1, symb2) ==
    \/ symb1.type = "int" /\ symb2.type = "int"
    \/ symb1.type = "float" /\ symb2.type = "float"

BothInt(symb1, symb2) == symb1.type = "int" /\ symb2.type = "int"

BothFloat(symb1, symb2) == symb1.type = "float" /\ symb2.type = "float"

SameTypeNotNil(symb1, symb2) == symb1.type = symb2.type /\ symb1.type # "nil"

SameTypeOrNil(symb1, symb2) ==
    symb1.type = symb2.type \/ symb1.type = "nil" \/ symb2.type = "nil"

BothBool(symb1, symb2) == symb1.type = "bool" /\ symb2.type = "bool"

BothString(symb1, symb2) == symb1.type = "string" /\ symb2.type = "string"

_ADD(s, args) ==
    LET o == Operands(s, args)
    IN IF o.err # 0 THEN exit_err(s, o.err)
       ELSE IF BothIntOrBothFloat(o.symb1, o.symb2)
       THEN Store(s, args[1].value, Var__add__(o.symb1, o.symb2))
       ELSE exit_err(s, BAD_OPERAND_TYPE)

_ADDS(s, args) ==
    LET p == Popped(s)
    IN IF p.err # 0 THEN exit_err(p.s, p.err)
       ELSE IF BothIntOrBothFloat(p.symb1, p.symb2)
       THEN Push(p.s, Var__add__(p.symb1, p.symb2))
       ELSE exit_err(p.s, BAD_OPERAND_TYPE)

_SUB(s, args) ==
    LET o == Operands(s, args)
    IN IF o.err # 0 THEN exit_err(s, o.err)
       ELSE IF BothIntOrBothFloat(o.symb1, o.symb2)
       THEN Store(s, args[1].value, Var__sub__(o.symb1, o.symb2))
       ELSE exit_err(s, BAD_OPERAND_TYPE)

_SUBS(s, args) ==
    LET p == Popped(s)
    IN IF p.err # 0 THEN exit_err(p.s, p.err)
       ELSE IF BothIntOrBothFloat(p.symb1, p.symb2)
       THEN Push(p.s, Var__sub__(p.symb1, p.symb2))
       ELSE exit_err(p.s, BAD_OPERAND_TYPE)

_MUL(s, args) ==
    LET o == Operands(s, args)
    IN IF o.err # 0 THEN exit_err(s, o.err)
       ELSE IF BothIntOrBothFloat(o.symb1, o.symb2)
       THEN Store(s, args[1].value, Var__mul__(o.symb1, o.symb2))
       ELSE exit_err(s, BAD_OPERAND_TYPE)

_MULS(s, args) ==
    LET p == Popped(s)
    IN IF p.err # 0 THEN exit_err(p.s, p.err)
       ELSE IF BothIntOrBothFloat(p.symb1, p.symb2)
       THEN Push(p.s, Var__mul__(p.symb1, p.symb2))
       ELSE exit_err(p.s, BAD_OPERAND_TYPE)

_IDIV(s, args) ==
    LET o == Operands(s, args)
    IN IF o.err # 0 THEN exit_err(s, o.err)
       ELSE IF BothInt(o.symb1, o.symb2)
       THEN Store(s, args[1].value, Var__floordiv__(o.symb1, o.symb2))
       ELSE exit_err(s, BAD_OPERAND_TYPE)

_IDIVS(s, args) ==
    LET p == Popped(s)
    IN IF p.err # 0 THEN exit_err(p.s, p.err)
       ELSE IF BothInt(p.symb1, p.symb2)
       THEN Push(p.s, Var__floordiv__(p.symb1, p.symb2))
       ELSE exit_err(p.s, BAD_OPERAND_TYPE)

\* _DIV has a branch of its own for a string operand
_DIV(s, args) ==
    LET o == Operands(s, args)
    IN IF o.err # 0 THEN exit_err(s, o.err)
       ELSE IF BothFloat(o.symb1, o.symb2)
       THEN Store(s, args[1].value, Var__truediv__(o.symb1, o.symb2))
       ELSE IF o.symb1.type = "string" \/ o.symb2.type = "string"
       THEN exit_err(s, STRING_ERR)
       ELSE exit_err(s, BAD_OPERAND_TYPE)

_DIVS(s, args) ==
    LET p == Popped(s)
    IN IF p.err # 0 THEN exit_err(p.s, p.err)
       ELSE IF BothFloat(p.symb1, p.symb2)
       THEN Push(p.s, Var__truediv__(p.symb1, p.symb2))
       ELSE exit_err(p.s, BAD_OPERAND_TYPE)

_LT(s, args) ==
    LET o == Operands(s, args)
    IN IF o.err # 0 THEN exit_err(s, o.err)
       ELSE IF SameTypeNotNil(o.symb1, o.symb2)
       THEN Store(s, args[1].value, Var__lt__(o.symb1, o.symb2))
       ELSE exit_err(s, BAD_OPERAND_TYPE)

_LTS(s, args) ==
    LET p == Popped(s)
    IN IF p.err # 0 THEN exit_err(p.s, p.err)
       ELSE IF SameTypeNotNil(p.symb1, p.symb2)
       THEN Push(p.s, Var__lt__(p.symb1, p.symb2))
       ELSE exit_err(p.s, BAD_OPERAND_TYPE)

_GT(s, args) ==
    LET o == Operands(s, args)
    IN IF o.err # 0 THEN exit_err(s, o.err)
       ELSE IF SameTypeNotNil(o.symb1, o.symb2)
       THEN Store(s, args[1].value, Var__gt__(o.symb1, o.symb2))
       ELSE exit_err(s, BAD_OPERAND_TYPE)

_GTS(s, args) ==
    LET p == Popped(s)
    IN IF p.err # 0 THEN exit_err(p.s, p.err)
       ELSE IF SameTypeNotNil(p.symb1, p.symb2)
       THEN Push(p.s, Var__gt__(p.symb1, p.symb2))
       ELSE exit_err(p.s, BAD_OPERAND_TYPE)

_EQ(s, args) ==
    LET o == Operands(s, args)
    IN IF o.err # 0 THEN exit_err(s, o.err)
       ELSE IF SameTypeOrNil(o.symb1, o.symb2)
       THEN Store(s, args[1].value, Var__eq__(o.symb1, o.symb2))
       ELSE exit_err(s, BAD_OPERAND_TYPE)

_EQS(s, args) ==
    LET p == Popped(s)
    IN IF p.err # 0 THEN exit_err(p.s, p.err)
       ELSE IF SameTypeOrNil(p.symb1, p.symb2)
       THEN Push(p.s, Var__eq__(p.symb1, p.symb2))
       ELSE exit_err(p.s, BAD_OPERAND_TYPE)

_AND(s, args) ==
    LET o == Operands(s, args)
    IN IF o.err # 0 THEN exit_err(s, o.err)
       ELSE IF BothBool(o.symb1, o.symb2)
       THEN Store(s, args[1].value, Var__and__(o.symb1, o.symb2))
       ELSE exit_err(s, BAD_OPERAND_TYPE)

_ANDS(s, args) ==
    LET p == Popped(s)
    IN IF p.err # 0 THEN exit_err(p.s, p.err)
       ELSE IF BothBool(p.symb1, p.symb2)
       THEN Push(p.s, Var__and__(p.symb1, p.symb2))
       ELSE exit_err(p.s, BAD_OPERAND_TYPE)

_OR(s, args) ==
    LET o == Operands(s, args)
    IN IF o.err # 0 THEN exit_err(s, o.err)
       ELSE IF BothBool(o.symb1, o.symb2)
       THEN Store(s, args[1].value, Var__or__(o.symb1, o.symb2))
       ELSE exit_err(s, BAD_OPERAND_TYPE)

_ORS(s, args) ==
    LET p == Popped(s)
    IN IF p.err # 0 THEN exit_err(p.s, p.err)
       ELSE IF BothBool(p.symb1, p.symb2)
       THEN Push(p.s, Var__or__(p.symb1, p.symb2))
       ELSE exit_err(p.s, BAD_OPERAND_TYPE)

_CONCAT(s, args) ==
    LET o == Operands(s, args)
    IN IF o.err # 0 THEN exit_err(s, o.err)
       ELSE IF BothString(o.symb1, o.symb2)
       THEN Store(s, args[1].value, Var__add__(o.symb1, o.symb2))
       ELSE exit_err(s, BAD_OPERAND_TYPE)

_NOT(s, args) ==
    LET r == const_var(s, args[2], TRUE)
    IN IF r.err # 0 THEN exit_err(s, r.err)
       ELSE IF r.var.type = "bool"
       THEN setvar(s, args[1].value, Var__invert__(r.var).var)
       ELSE exit_err(s, BAD_OPERAND_TYPE)

_NOTS(s, args) ==
    LET p == pops(s)
    IN IF p.err # 0 THEN exit_err(s, p.err)
       ELSE IF p.var.type = "bool"
       THEN pushs(p.s, Var__invert__(p.var).var)
       ELSE exit_err(p.s, BAD_OPERAND_TYPE)

_INT2CHAR(s, args) ==
    LET r == const_var(s, args[2], TRUE)
    IN IF r.err # 0 THEN exit_err(s, r.err)
       ELSE IF r.var.type # "int" THEN exit_err(s, BAD_OPERAND_TYPE)
       ELSE IF ChrOk(Val(r.var))
       THEN setvar(s, args[1].value, Var("string", <<Val(r.var)>>))
       ELSE exit_err(s, STRING_ERR)

_INT2CHARS(s, args) ==
    LET p == pops(s)
    IN IF p.err # 0 THEN exit_err(s, p.err)
       ELSE IF p.var.type # "int" THEN exit_err(p.s, BAD_OPERAND_TYPE)
       ELSE IF ChrOk(Val(p.var))
       THEN pushs(p.s, Var("string", <<Val(p.var)>>))
       ELSE exit_err(p.s, STRING_ERR)

\* the checks and the result shared by _STRI2INT and _STRI2INTS
Stri2Int(symb1, symb2) ==
    IF symb1.type # "string" \/ symb2.type # "int" THEN Err(BAD_OPERAND_TYPE)
    ELSE IF Val(symb2) < 0 \/ Val(symb2) >= Len(Val(symb1)) THEN Err(STRING_ERR)
    ELSE Ok(Var("int", Val(symb1)[Val(symb2) + 1]))

_STRI2INT(s, args) ==
    LET o == Operands(s, args)
    IN IF o.err # 0 THEN exit_err(s, o.err)
       ELSE Store(s, args[1].value, Stri2Int(o.symb1, o.symb2))

_STRI2INTS(s, args) ==
    LET p == Popped(s)
    IN IF p.err # 0 THEN exit_err(p.s, p.err)
       ELSE Push(p.s, Stri2Int(p.symb1, p.symb2))

_INT2FLOAT(s, args) ==
    LET r == const_var(s, args[2], TRUE)
    IN IF r.err # 0 THEN exit_err(s, r.err)
       ELSE IF r.var.type # "int" THEN exit_err(s, BAD_OPERAND_TYPE)
       ELSE setvar(s, args[1].value, Var("float", Float(Val(r.var), 1)))

_INT2FLOATS(s, args) ==
    LET p == pops(s)
    IN IF p.err # 0 THEN exit_err(s, p.err)
       ELSE IF p.var.type # "int" THEN exit_err(p.s, BAD_OPERAND_TYPE)
       ELSE pushs(p.s, Var("float", Float(Val(p.var), 1)))

_FLOAT2INT(s, args) ==
    LET r == const_var(s, args[2], TRUE)
    IN IF r.err # 0 THEN exit_err(s, r.err)
       ELSE IF r.var.type # "float" THEN exit_err(s, BAD_OPERAND_TYPE)
       ELSE setvar(s, args[1].value, Var("int", FloatToInt(Val(r.var))))

_FLOAT2INTS(s, args) ==
    LET p == pops(s)
    IN IF p.err # 0 THEN exit_err(s, p.err)
       ELSE IF p.var.type # "float" THEN exit_err(p.s, BAD_OPERAND_TYPE)
       ELSE pushs(p.s, Var("int", FloatToInt(Val(p.var))))

\* _READ.  input_file is [kind, lines]: sys.stdin or an opened file, and
\* the lines not yet read, without their newline.  input() raises EOFError
\* at the end of stdin, readline() returns '' at the end of a file; after
\* the except branch input_val is unbound, so a later use of it raises
\* UnboundLocalError, which `except Exception` catches for int and float and
\* nothing catches for bool and string.
\* _READ that leaves a nil without a value when the input cannot be converted
_READ_NoValue(s, args) ==
    IF args[2].value \notin {"int", "string", "bool", "float"}
    THEN exit_err(s, BAD_OPERAND_VAL)
    ELSE
    LET type_ == args[2].value
        at_end == s.input_file.lines = <<>>
        raised == s.input_file.kind = "stdin" /\ at_end
        input_val == IF at_end THEN <<>> ELSE Head(s.input_file.lines)
        s1 == IF at_end THEN s
              ELSE [s EXCEPT !.input_file.lines = Tail(@)]
        nil == [type |-> "nil", value |-> <<>>]
    IN IF type_ = "bool"
       THEN IF raised THEN uncaught(s1)
            ELSE setvar(s1, args[1].value,
                        Var("bool", BoolTok(Upper(input_val) = TRUE_TEXT)))
       ELSE IF type_ = "int"
       THEN IF raised \/ ~ParseInt(input_val).ok
            THEN setvar(s1, args[1].value, nil)
            ELSE setvar(s1, args[1].value, Var("int", ParseInt(input_val).value))
       ELSE IF type_ = "float"
       THEN IF raised \/ ~ParseHexFloat(input_val).ok
            THEN setvar(s1, args[1].value, nil)
            ELSE setvar(s1, args[1].value,
                        Var("float", ParseHexFloat(input_val).value))
       ELSE IF raised THEN uncaught(s1)
            ELSE setvar(s1, args[1].value, Var("string", input_val))

_READ(s, args) ==
    IF args[2].value \notin {"int", "string", "bool", "float"}
    THEN exit_err(s, BAD_OPERAND_VAL)
    ELSE
    LET type_ == args[2].value
        at_end == s.input_file.lines = <<>>
        raised == s.input_file.kind = "stdin" /\ at_end
        input_val == IF at_end THEN <<>> ELSE Head(s.input_file.lines)
        s1 == IF at_end THEN s
              ELSE [s EXCEPT !.input_file.lines = Tail(@)]
        nil == Var("nil", "nil")
    IN IF type_ = "bool"
       THEN IF raised THEN uncaught(s1)
            ELSE setvar(s1, args[1].value,
                        Var("bool", BoolTok(Upper(input_val) = TRUE_TEXT)))
       ELSE IF type_ = "int"
       THEN IF raised \/ ~ParseInt(input_val).ok
            THEN setvar(s1, args[1].value, nil)
            ELSE setvar(s1, args[1].value, Var("int", ParseInt(input_val).value))
       ELSE IF type_ = "float"
       THEN IF raised \/ ~ParseHexFloat(input_val).ok
            THEN setvar(s1, args[1].value, nil)
            ELSE setvar(s1, args[1].value,
                        Var("float", ParseHexFloat(input_val).value))
       ELSE IF raised THEN uncaught(s1)
            ELSE setvar(s1, args[1].value, Var("string", input_val))

\* print() writes to standard output, which is outside the model
_WRITE(s, args) ==
    LET r == const_var(s, args[1], TRUE)
    IN IF r.err # 0 THEN exit_err(s, r.err) ELSE s

_STRLEN(s, args) ==
    LET r == const_var(s, args[2], TRUE)
    IN IF r.err # 0 THEN exit_err(s, r.err)
       ELSE IF r.var.type # "string" THEN exit_err(s, BAD_OPERAND_TYPE)
       ELSE setvar(s, args[1].value, Var("int", Len(Val(r.var))))

\* GetChar with Python's own indexing, where a negative index counts from the end
GetChar_Wraps(symb1, symb2) ==
    IF symb1.type # "string" \/ symb2.type # "int" THEN Err(BAD_OPERAND_TYPE)
    ELSE IF Val(symb2) < 0 - Len(Val(symb1)) \/ Val(symb2) >= Len(Val(symb1))
    THEN Err(STRING_ERR)
    ELSE Ok(Var("string", <<Val(symb1)[IF Val(symb2) < 0
                                        THEN Len(Val(symb1)) + Val(symb2) + 1
                                        ELSE Val(symb2) + 1]>>))

GetChar(symb1, symb2) ==
    IF symb1.type # "string" \/ symb2.type # "int" THEN Err(BAD_OPERAND_TYPE)
    ELSE IF Val(symb2) < 0 \/ Val(symb2) >= Len(Val(symb1)) THEN Err(STRING_ERR)
    ELSE Ok(Var("string", <<Val(symb1)[Val(symb2) + 1]>>))

_GETCHAR(s, args) ==
    LET o == Operands(s, args)
    IN IF o.err # 0 THEN exit_err(s, o.err)
       ELSE Store(s, args[1].value, GetChar(o.symb1, o.symb2))

_SETCHAR(s, args) ==
    LET v == const_var(s, args[1], TRUE)
    IN IF v.err # 0 THEN exit_err(s, v.err)
       ELSE LET r1 == const_var(s, args[2], TRUE)
       IN IF r1.err # 0 THEN exit_err(s, r1.err)
       ELSE LET r2 == const_var(s, args[3], TRUE)
       IN IF r2.err # 0 THEN exit_err(s, r2.err)
       ELSE IF v.var.type # "string" \/ r1.var.type # "int" \/ r2.var.type # "string"
       THEN exit_err(s, BAD_OPERAND_TYPE)
       ELSE IF Val(r1.var) < 0 \/ Val(r1.var) >= Len(Val(v.var))
       THEN exit_err(s, STRING_ERR)
       ELSE IF Len(Val(r2.var)) = 0
       THEN exit_err(s, STRING_ERR)
       ELSE setvar(s, args[1].value,
                   Var("string", SubSeq(Val(v.var), 1, Val(r1.var))
                                 \o <<Val(r2.var)[1]>>
                                 \o SubSeq(Val(v.var), Val(r1.var) + 2, Len(Val(v.var)))))

\* the Python str of a type name
TypeNameText(type_) ==
    IF type_ = "int" THEN <<105, 110, 116>>
    ELSE IF type_ = "float" THEN <<102, 108, 111, 97, 116>>
    ELSE IF type_ = "string" THEN <<115, 116, 114, 105, 110, 103>>
    ELSE IF type_ = "bool" THEN <<98, 111, 111, 108>>
    ELSE <<110, 105, 108>>

\* _TYPE that reads its source as every other method does
_TYPE_Checked(s, args) ==
    LET r == const_var(s, args[2], TRUE)
    IN IF r.err # 0 THEN exit_err(s, r.err)
       ELSE setvar(s, args[1].value, Var("string", TypeNameText(r.var.type)))

_TYPE(s, args) ==
    LET r == const_var(s, args[2], FALSE)
    IN IF r.err # 0 THEN exit_err(s, r.err)
       ELSE IF r.var.type = None
       THEN setvar(s, args[1].value, Var("string", <<>>))
       ELSE setvar(s, args[1].value, Var("string", TypeNameText(r.var.type)))

_LABEL(s, args) == dec_executed(s)

_JUMP(s, args) == jump(s, args[1].value)

\* JumpIf that tests the operand types before it looks the label up
JumpIf_TypesFirst(s, label, symb1, symb2, r) ==
    IF SameTypeOrNil(symb1, symb2)
    THEN IF ~label_exists(s, label) THEN exit_err(s, UNDEF_REDEF)
         ELSE IF r.err # 0 THEN exit_err(s, r.err)
         ELSE IF Val(r.var) = "true" THEN jump(s, label) ELSE s
    ELSE exit_err(s, BAD_OPERAND_TYPE)

\* The test shared by the conditional jumps once symb1 and symb2 are read:
\* the label check, the type check, the comparison and the jump.  r is
\* symb1 == symb2 for the EQ jumps and symb1 != symb2 for the NEQ jumps.
JumpIf(s, label, symb1, symb2, r) ==
    IF ~label_exists(s, label) THEN exit_err(s, UNDEF_REDEF)
    ELSE IF SameTypeOrNil(symb1, symb2)
    THEN IF r.err # 0 THEN exit_err(s, r.err)
         ELSE IF Val(r.var) = "true" THEN jump(s, label) ELSE s
    ELSE exit_err(s, BAD_OPERAND_TYPE)

_JUMPIFEQ(s, args) ==
    LET o == Operands(s, args)
    IN IF o.err # 0 THEN exit_err(s, o.err)
       ELSE JumpIf(s, args[1].value, o.symb1, o.symb2, Var__eq__(o.symb1, o.symb2))

_JUMPIFEQS(s, args) ==
    LET p == Popped(s)
    IN IF p.err # 0 THEN exit_err(p.s, p.err)
       ELSE JumpIf(p.s, args[1].value, p.symb1, p.symb2, Var__eq__(p.symb1, p.symb2))

_JUMPIFNEQ(s, args) ==
    LET o == Operands(s, args)
    IN IF o.err # 0 THEN exit_err(s, o.err)
       ELSE JumpIf(s, args[1].value, o.symb1, o.symb2, Var__ne__(o.symb1, o.symb2))

_JUMPIFNEQS(s, args) ==
    LET p == Popped(s)
    IN IF p.err # 0 THEN exit_err(p.s, p.err)
       ELSE JumpIf(p.s, args[1].value, p.symb1, p.symb2, Var__ne__(p.symb1, p.symb2))

_CLEARS(s, args) == clears(s)

_EXIT(s, args) ==
    LET r == const_var(s, args[1], TRUE)
    IN IF r.err # 0 THEN exit_err(s, r.err)
       ELSE IF r.var.type = "int"
       THEN IF Val(r.var) >= 0 /\ Val(r.var) <= 49
            THEN LET s1 == write_stats(s)
                 IN IF s1.exit_code # NoExit THEN s1
                    ELSE [s1 EXCEPT !.exit_code = Val(r.var)]
            ELSE exit_err(s, BAD_OPERAND_VAL)
       ELSE exit_err(s, BAD_OPERAND_TYPE)

\* a float constant is in neither branch and prints nothing
_DPRINT(s, args) ==
    LET s1 == dec_executed(s)
    IN IF args[1].type \in {"int", "string", "bool", "nil"}
       THEN print_stderr(s1, "DPRINT")
       ELSE IF args[1].type = "var"
       THEN LET r == getvar(s1, args[1].value, TRUE)
            IN IF r.err # 0 THEN exit_err(s1, r.err)
               ELSE print_stderr(s1, "DPRINT")
       ELSE s1

_BREAK(s, args) == print_stderr(dec_executed(s), "BREAK")

(***************************************************************************)
(* InstructionExecutor.interpret: the dispatch loop.                       *)
(***************************************************************************)
Instruction(opcode, args) == [opcode |-> opcode, args |-> args]

NoInst == Instruction("None", <<>>)

VarId(frame_name, var_name) == [frame |-> frame_name, name |-> var_name]

VarArg(id) == [type |-> "var", value |-> id]

LabelArg(label) == [type |-> "label", value |-> label]

TypeArg(type_) == [type |-> "type", value |-> type_]

Lit(type_, v) == [type |-> type_, value |-> v]

\* Instructions.next() that does not move the program counter
next_Stays(s, i) ==
    [s EXCEPT !.executed_count = @ + 1, !.inst = i]

\* Instructions.next() when it returns instruction i
next(s, i) ==
    [s EXCEPT !.pc = @ + 1, !.executed_count = @ + 1, !.inst = i]

\* eval(f'self._{inst.opcode}(inst.args)')
Execute(s, i) ==
    CASE
       i.opcode = "MOVE" -> _MOVE(s, i.args)
    [] i.opcode = "CREATEFRAME" -> _CREATEFRAME(s, i.args)
    [] i.opcode = "PUSHFRAME" -> _PUSHFRAME(s, i.args)
    [] i.opcode = "POPFRAME" -> _POPFRAME(s, i.args)
    [] i.opcode = "DEFVAR" -> _DEFVAR(s, i.args)
    [] i.opcode = "CALL" -> _CALL(s, i.args)
    [] i.opcode = "RETURN" -> _RETURN(s, i.args)
    [] i.opcode = "PUSHS" -> _PUSHS(s, i.args)
    [] i.opcode = "POPS" -> _POPS(s, i.args)
    [] i.opcode = "ADD" -> _ADD(s, i.args)
    [] i.opcode = "ADDS" -> _ADDS(s, i.args)
    [] i.opcode = "SUB" -> _SUB(s, i.args)
    [] i.opcode = "SUBS" -> _SUBS(s, i.args)
    [] i.opcode = "MUL" -> _MUL(s, i.args)
    [] i.opcode = "MULS" -> _MULS(s, i.args)
    [] i.opcode = "IDIV" -> _IDIV(s, i.args)
    [] i.opcode = "IDIVS" -> _IDIVS(s, i.args)
    [] i.opcode = "DIV" -> _DIV(s, i.args)
    [] i.opcode = "DIVS" -> _DIVS(s, i.args)
    [] i.opcode = "LT" -> _LT(s, i.args)
    [] i.opcode = "LTS" -> _LTS(s, i.args)
    [] i.opcode = "GT" -> _GT(s, i.args)
    [] i.opcode = "GTS" -> _GTS(s, i.args)
    [] i.opcode = "EQ" -> _EQ(s, i.args)
    [] i.opcode = "EQS" -> _EQS(s, i.args)
    [] i.opcode = "AND" -> _AND(s, i.args)
    [] i.opcode = "ANDS" -> _ANDS(s, i.args)
    [] i.opcode = "OR" -> _OR(s, i.args)
    [] i.opcode = "ORS" -> _ORS(s, i.args)
    [] i.opcode = "NOT" -> _NOT(s, i.args)
    [] i.opcode = "NOTS" -> _NOTS(s, i.args)
    [] i.opcode = "INT2CHAR" -> _INT2CHAR(s, i.args)
    [] i.opcode = "INT2CHARS" -> _INT2CHARS(s, i.args)
    [] i.opcode = "STRI2INT" -> _STRI2INT(s, i.args)
    [] i.opcode = "STRI2INTS" -> _STRI2INTS(s, i.args)
    [] i.opcode = "INT2FLOAT" -> _INT2FLOAT(s, i.args)
    [] i.opcode = "INT2FLOATS" -> _INT2FLOATS(s, i.args)
    [] i.opcode = "FLOAT2INT" -> _FLOAT2INT(s, i.args)
    [] i.opcode = "FLOAT2INTS" -> _FLOAT2INTS(s, i.args)
    [] i.opcode = "READ" -> _READ(s, i.args)
    [] i.opcode = "WRITE" -> _WRITE(s, i.args)
    [] i.opcode = "CONCAT" -> _CONCAT(s, i.args)
    [] i.opcode = "STRLEN" -> _STRLEN(s, i.args)
    [] i.opcode = "GETCHAR" -> _GETCHAR(s, i.args)
    [] i.opcode = "SETCHAR" -> _SETCHAR(s, i.args)
    [] i.opcode = "TYPE" -> _TYPE(s, i.args)
    [] i.opcode = "LABEL" -> _LABEL(s, i.args)
    [] i.opcode = "JUMP" -> _JUMP(s, i.args)
    [] i.opcode = "JUMPIFEQ" -> _JUMPIFEQ(s, i.args)
    [] i.opcode = "JUMPIFEQS" -> _JUMPIFEQS(s, i.args)
    [] i.opcode = "JUMPIFNEQ" -> _JUMPIFNEQ(s, i.args)
    [] i.opcode = "JUMPIFNEQS" -> _JUMPIFNEQS(s, i.args)
    [] i.opcode = "CLEARS" -> _CLEARS(s, i.args)
    [] i.opcode = "EXIT" -> _EXIT(s, i.args)
    [] i.opcode = "DPRINT" -> _DPRINT(s, i.args)
    [] i.opcode = "BREAK" -> _BREAK(s, i.args)

\* one turn of the loop from state s with instruction i at index s.pc
Turn(s, i) == count_executed(Execute(next(s, i), i), i.opcode)

\* Instructions.add registered every LABEL at the index behind it, so the
\* instruction at index pc is a LABEL exactly when a label maps to pc + 1
LabelHere(i) ==
    IF i.opcode = "LABEL"
    THEN i.args[1].value \in DOMAIN labels /\ labels[i.args[1].value] = pc + 1
    ELSE \A l \in DOMAIN labels : labels[l] # pc + 1

\* the state the interpreter is left in
Commit(s) ==
    /\ pc' = s.pc
    /\ calls' = s.calls
    /\ labels' = s.labels
    /\ executed_count' = s.executed_count
    /\ lf_stack' = s.lf_stack
    /\ gf' = s.gf
    /\ tf' = s.tf
    /\ tf_created' = s.tf_created
    /\ init_vars' = s.init_vars
    /\ stack' = s.stack
    /\ input_file' = s.input_file
    /\ inst' = s.inst
    /\ exit_code' = s.exit_code
    /\ source_file' = s.source_file
    /\ xmlroot' = s.xmlroot
    /\ stats_path' = s.stats_path
    /\ stats_group' = s.stats_group
    /\ exec_per_inst' = s.exec_per_inst
    /\ stats_file' = s.stats_file
    /\ stderr' = s.stderr

\* One iteration of the loop: instruction i is found at index pc, and after
\* is the state its method leaves when run after Instructions.next().
Step(i, after) ==
    /\ exit_code = NoExit
    /\ pc < ProgLen
    /\ LabelHere(i)
    /\ Commit(count_executed(after, i.opcode))

MOVE(VS, SS) ==
    \E v \in VS, symb \in SS :
        LET i == Instruction("MOVE", <<VarArg(v), symb>>)
        IN Step(i, _MOVE(next(State, i), i.args))

CREATEFRAME ==
    LET i == Instruction("CREATEFRAME", <<>>)
    IN Step(i, _CREATEFRAME(next(State, i), i.args))

PUSHFRAME ==
    LET i == Instruction("PUSHFRAME", <<>>)
    IN Step(i, _PUSHFRAME(next(State, i), i.args))

POPFRAME ==
    LET i == Instruction("POPFRAME", <<>>)
    IN Step(i, _POPFRAME(next(State, i), i.args))

DEFVAR(VS) ==
    \E v \in VS :
        LET i == Instruction("DEFVAR", <<VarArg(v)>>)
        IN Step(i, _DEFVAR(next(State, i), i.args))

CALL(LS) ==
    \E l \in LS :
        LET i == Instruction("CALL", <<LabelArg(l)>>)
        IN Step(i, _CALL(next(State, i), i.args))

RETURN ==
    LET i == Instruction("RETURN", <<>>)
    IN Step(i, _RETURN(next(State, i), i.args))

PUSHS(SS) ==
    \E symb \in SS :
        LET i == Instruction("PUSHS", <<symb>>)
        IN Step(i, _PUSHS(next(State, i), i.args))

POPS(VS) ==
    \E v \in VS :
        LET i == Instruction("POPS", <<VarArg(v)>>)
        IN Step(i, _POPS(next(State, i), i.args))

ADD(VS, SS) ==
    \E v \in VS, symb1 \in SS, symb2 \in SS :
        LET i == Instruction("ADD", <<VarArg(v), symb1, symb2>>)
        IN Step(i, _ADD(next(State, i), i.args))

ADDS ==
    LET i == Instruction("ADDS", <<>>)
    IN Step(i, _ADDS(next(State, i), i.args))

SUB(VS, SS) ==
    \E v \in VS, symb1 \in SS, symb2 \in SS :
        LET i == Instruction("SUB", <<VarArg(v), symb1, symb2>>)
        IN Step(i, _SUB(next(State, i), i.args))

SUBS ==
    LET i == Instruction("SUBS", <<>>)
    IN Step(i, _SUBS(next(State, i), i.args))

MUL(VS, SS) ==
    \E v \in VS, symb1 \in SS, symb2 \in SS :
        LET i == Instruction("MUL", <<VarArg(v), symb1, symb2>>)
        IN Step(i, _MUL(next(State, i), i.args))

MULS ==
    LET i == Instruction("MULS", <<>>)
    IN Step(i, _MULS(next(State, i), i.args))

DIV(VS, SS) ==
    \E v \in VS, symb1 \in SS, symb2 \in SS :
        LET i == Instruction("DIV", <<VarArg(v), symb1, symb2>>)
        IN Step(i, _DIV(next(State, i), i.args))

DIVS ==
    LET i == Instruction("DIVS", <<>>)
    IN Step(i, _DIVS(next(State, i), i.args))

EQ(VS, SS) ==
    \E v \in VS, symb1 \in SS, symb2 \in SS :
        LET i == Instruction("EQ", <<VarArg(v), symb1, symb2>>)
        IN Step(i, _EQ(next(State, i), i.args))

EQS ==
    LET i == Instruction("EQS", <<>>)
    IN Step(i, _EQS(next(State, i), i.args))

READ(VS, TS) ==
    \E v \in VS, t \in TS :
        LET i == Instruction("READ", <<VarArg(v), TypeArg(t)>>)
        IN Step(i, _READ(next(State, i), i.args))

IDIV(VS, SS) ==
    \E v \in VS, symb1 \in SS, symb2 \in SS :
        LET i == Instruction("IDIV", <<VarArg(v), symb1, symb2>>)
        IN Step(i, _IDIV(next(State, i), i.args))

IDIVS ==
    LET i == Instruction("IDIVS", <<>>)
    IN Step(i, _IDIVS(next(State, i), i.args))

LT(VS, SS) ==
    \E v \in VS, symb1 \in SS, symb2 \in SS :
        LET i == Instruction("LT", <<VarArg(v), symb1, symb2>>)
        IN Step(i, _LT(next(State, i), i.args))

LTS ==
    LET i == Instruction("LTS", <<>>)
    IN Step(i, _LTS(next(State, i), i.args))

GT(VS, SS) ==
    \E v \in VS, symb1 \in SS, symb2 \in SS :
        LET i == Instruction("GT", <<VarArg(v), symb1, symb2>>)
        IN Step(i, _GT(next(State, i), i.args))

GTS ==
    LET i == Instruction("GTS", <<>>)
    IN Step(i, _GTS(next(State, i), i.args))

TYPE(VS, SS) ==
    \E v \in VS, symb \in SS :
        LET i == Instruction("TYPE", <<VarArg(v), symb>>)
        IN Step(i, _TYPE(next(State, i), i.args))

STRI2INT(VS, SS1, SS2) ==
    \E v \in VS, symb1 \in SS1, symb2 \in SS2 :
        LET i == Instruction("STRI2INT", <<VarArg(v), symb1, symb2>>)
        IN Step(i, _STRI2INT(next(State, i), i.args))

GETCHAR(VS, SS1, SS2) ==
    \E v \in VS, symb1 \in SS1, symb2 \in SS2 :
        LET i == Instruction("GETCHAR", <<VarArg(v), symb1, symb2>>)
        IN Step(i, _GETCHAR(next(State, i), i.args))

SETCHAR(VS, SS1, SS2) ==
    \E v \in VS, symb1 \in SS1, symb2 \in SS2 :
        LET i == Instruction("SETCHAR", <<VarArg(v), symb1, symb2>>)
        IN Step(i, _SETCHAR(next(State, i), i.args))

LABEL ==
    \E l \in DOMAIN labels :
        LET i == Instruction("LABEL", <<LabelArg(l)>>)
        IN Step(i, _LABEL(next(State, i), i.args))

JUMP(LS) ==
    \E l \in LS :
        LET i == Instruction("JUMP", <<LabelArg(l)>>)
        IN Step(i, _JUMP(next(State, i), i.args))

JUMPIFEQ(LS, SS) ==
    \E l \in LS, symb1 \in SS, symb2 \in SS :
        LET i == Instruction("JUMPIFEQ", <<LabelArg(l), symb1, symb2>>)
        IN Step(i, _JUMPIFEQ(next(State, i), i.args))

JUMPIFEQS(LS) ==
    \E l \in LS :
        LET i == Instruction("JUMPIFEQS", <<LabelArg(l)>>)
        IN Step(i, _JUMPIFEQS(next(State, i), i.args))

JUMPIFNEQ(LS, SS) ==
    \E l \in LS, symb1 \in SS, symb2 \in SS :
        LET i == Instruction("JUMPIFNEQ", <<LabelArg(l), symb1, symb2>>)
        IN Step(i, _JUMPIFNEQ(next(State, i), i.args))

JUMPIFNEQS(LS) ==
    \E l \in LS :
        LET i == Instruction("JUMPIFNEQS", <<LabelArg(l)>>)
        IN Step(i, _JUMPIFNEQS(next(State, i), i.args))

CLEARS ==
    LET i == Instruction("CLEARS", <<>>)
    IN Step(i, _CLEARS(next(State, i), i.args))

\* next() returned None: the loop ends and the interpreter exits with SUCCESS.
\* The program may end at any index that is not before a declared LABEL.
EndOfProgram ==
    /\ exit_code = NoExit
    /\ \A l \in DOMAIN labels : labels[l] <= pc
    /\ Commit(end_of_program(State))

\* the number of counted instructions a run of the model may execute
Within(limit) == executed_count < limit

(***************************************************************************)
(* class XMLParser and main.  source_file is [kind, root]: a file that     *)
(* cannot be opened ("missing"), one that is not well-formed XML           *)
(* ("malformed"), or a document with the given root element ("xml").       *)
(* The elements of the model have the tags and attributes that the checks  *)
(* of the instruction loop and _inst_syntax accept, and so have their      *)
(* arguments of every type but int: of those checks the ones on the order  *)
(* attribute and on the text of an int argument are modelled.              *)
(***************************************************************************)
\* root.attrib[name]
GetAttr(attrib, name) ==
    attrib[CHOOSE k \in 1..Len(attrib) : attrib[k].name = name].value

HasAttr(attrib, name) == \E k \in 1..Len(attrib) : attrib[k].name = name

\* the body of `for attr in root.attrib` exits for this attribute
RootAttrRejected(attrib, attr) ==
    \/ attr.name \notin {"language", "name", "description"}
    \/ ~HasAttr(attrib, "language")
    \/ Upper(GetAttr(attrib, "language")) # IPPCODE21

\* int(order) raises ValueError or is below 1, or int(order) is in
\* inst_orders, which holds the orders of the elements before the k-th
OrderRejected(children, k) ==
    LET order == ParseInt(children[k].order)
    IN \/ ~order.ok
       \/ order.value < 1
       \/ \E j \in 1..(k - 1) : ParseInt(children[j].order).value = order.value

\* the dict _inst_syntax builds for an arg element; err names how it fails:
\* int(None) raises the TypeError that `except ValueError` lets through
ArgDict(arg) ==
    IF arg.type # "int" THEN [err |-> "", arg |-> arg]
    ELSE IF arg.value = <<>> THEN [err |-> "TypeError", arg |-> arg]
    ELSE LET n == ParseInt(arg.value[1])
         IN IF n.ok THEN [err |-> "", arg |-> [type |-> "int", value |-> n.value]]
            ELSE [err |-> "BAD_STRUCT", arg |-> arg]

\* _inst_syntax: the args of the instruction, or the failure of the first
\* arg element that has one
_inst_syntax(element) ==
    LET failed == {k \in 1..Len(element.args) : ArgDict(element.args[k]).err # ""}
    IN [err |-> IF failed = {} THEN ""
                ELSE ArgDict(element.args[CHOOSE k \in failed :
                                           \A j \in failed : k <= j]).err,
        args |-> [k \in 1..Len(element.args) |-> ArgDict(element.args[k]).arg]]

\* the body of `for inst in root` for the k-th element: "" when it adds the
\* element to inst_orders
ElementRejected(children, k) ==
    IF OrderRejected(children, k) THEN "BAD_STRUCT"
    ELSE _inst_syntax(children[k]).err

\* the first element the loop fails on, 0 when it accepts every element
FirstRejected(children) ==
    LET failed == {k \in 1..Len(children) : ElementRejected(children, k) # ""}
    IN IF failed = {} THEN 0 ELSE CHOOSE k \in failed : \A j \in failed : k <= j

\* a loop that adds the elements as the document has them
ByOrder_Document(children) == children

\* for i in sorted(inst_orders): the elements by ascending order
RECURSIVE ByOrder(_)
ByOrder(children) ==
    IF children = <<>> THEN <<>>
    ELSE LET m == CHOOSE k \in 1..Len(children) :
                      \A j \in 1..Len(children) :
                          ParseInt(children[k].order).value
                              <= ParseInt(children[j].order).value
         IN <<children[m]>>
            \o ByOrder(SubSeq(children, 1, m - 1) \o SubSeq(children, m + 1, Len(children)))

\* Instructions._instructions for the document with the given root
InstructionsOf(root) ==
    LET elements == ByOrder(root.children)
    IN [k \in 1..Len(elements) |->
           Instruction(OpcodeUpper(elements[k].opcode), _inst_syntax(elements[k]).args)]

\* Instructions._instructions; it is not changed once parse has returned
instructions(s) == InstructionsOf(s.xmlroot[1])

\* Instructions.add that knows only the label it added last
LabelRedefined_Adjacent(insts) ==
    \E k \in 1..(Len(insts) - 1) :
        /\ insts[k].opcode = "LABEL"
        /\ insts[k + 1].opcode = "LABEL"
        /\ insts[k].args[1].value = insts[k + 1].args[1].value

\* Instructions.add finds a label that is already in _labels
LabelRedefined(insts) ==
    \E j, k \in 1..Len(insts) :
        /\ j < k
        /\ insts[j].opcode = "LABEL"
        /\ insts[k].opcode = "LABEL"
        /\ insts[j].args[1].value = insts[k].args[1].value

\* Instructions.add that registers a label at the index of its LABEL
LabelsOf_AtLabel(insts) ==
    LET declared == {insts[k].args[1].value :
                        k \in {j \in 1..Len(insts) : insts[j].opcode = "LABEL"}}
    IN [l \in declared |->
           (CHOOSE k \in 1..Len(insts) :
               insts[k].opcode = "LABEL" /\ insts[k].args[1].value = l) - 1]

\* Instructions._labels once every instruction is added
LabelsOf(insts) ==
    LET declared == {insts[k].args[1].value :
                        k \in {j \in 1..Len(insts) : insts[j].opcode = "LABEL"}}
    IN [l \in declared |->
           CHOOSE k \in 1..Len(insts) :
               insts[k].opcode = "LABEL" /\ insts[k].args[1].value = l]

\* XMLParser.parse, and main handing the root to InstructionExecutor
parse(s) ==
    IF s.source_file.kind = "missing" THEN exit_err_blank(s, OPEN_ERR)
    ELSE IF s.source_file.kind = "malformed" THEN exit_err_blank(s, BAD_XML)
    ELSE
    LET root == s.source_file.root
    IN IF root.tag # "program" THEN exit_err(s, BAD_STRUCT)
       ELSE IF \E k \in 1..Len(root.attrib) : RootAttrRejected(root.attrib, root.attrib[k])
       THEN exit_err(s, BAD_STRUCT)
       ELSE IF FirstRejected(root.children) # 0
       THEN IF ElementRejected(root.children, FirstRejected(root.children)) = "TypeError"
            THEN uncaught(s)
            ELSE exit_err(s, BAD_STRUCT)
       ELSE IF LabelRedefined(InstructionsOf(root)) THEN exit_err(s, UNDEF_REDEF)
       ELSE [s EXCEPT !.labels = LabelsOf(InstructionsOf(root)),
                      !.xmlroot = <<root>>]

\* the process as main starts it, parse_args having returned the source
\* file, the input file, stats_path and stats_group
Boot(source, input, path, group) ==
    [pc |-> 0, calls |-> <<>>, labels |-> [l \in {} |-> 0], executed_count |-> 0,
     lf_stack |-> <<>>, gf |-> EmptyFrame, tf |-> EmptyFrame,
     tf_created |-> FALSE, init_vars |-> 0, stack |-> <<>>,
     input_file |-> input, inst |-> NoInst, exit_code |-> NoExit,
     source_file |-> source, xmlroot |-> <<>>, stats_path |-> path,
     stats_group |-> group, exec_per_inst |-> <<>>, stats_file |-> <<>>,
     stderr |-> <<>>]

\* the variables hold state s
Holds(s) ==
    /\ pc = s.pc
    /\ calls = s.calls
    /\ labels = s.labels
    /\ executed_count = s.executed_count
    /\ lf_stack = s.lf_stack
    /\ gf = s.gf
    /\ tf = s.tf
    /\ tf_created = s.tf_created
    /\ init_vars = s.init_vars
    /\ stack = s.stack
    /\ input_file = s.input_file
    /\ inst = s.inst
    /\ exit_code = s.exit_code
    /\ source_file = s.source_file
    /\ xmlroot = s.xmlroot
    /\ stats_path = s.stats_path
    /\ stats_group = s.stats_group
    /\ exec_per_inst = s.exec_per_inst
    /\ stats_file = s.stats_file
    /\ stderr = s.stderr

\* main: xmlparser.parse(source_file)
Parse ==
    /\ exit_code = NoExit
    /\ xmlroot = <<>>
    /\ Commit(parse(State))

\* One iteration of the loop over the parsed program: next() returns the
\* instruction at index pc.
Dispatch ==
    /\ exit_code = NoExit
    /\ xmlroot # <<>>
    /\ pc < Len(instructions(State))
    /\ Commit(Turn(State, instructions(State)[pc + 1]))

\* next() returns None at the end of the parsed program
Finish ==
    /\ exit_code = NoExit
    /\ xmlroot # <<>>
    /\ pc >= Len(instructions(State))
    /\ Commit(end_of_program(State))

(***************************************************************************)
(* The inputs: variable identifiers, literals, labels and input files.     *)
(***************************************************************************)
GFa == VarId("GF", "a")
GFb == VarId("GF", "b")
TFa == VarId("TF", "a")
TFb == VarId("TF", "b")
LFa == VarId("LF", "a")
LFb == VarId("LF", "b")

VarIds == {GFa, GFb, TFa, TFb, LFa, LFb}

Int0 == Lit("int", 0)
Int1 == Lit("int", 1)
Half == Lit("float", Float(1, 2))
Empty == Lit("string", <<>>)
StrA == Lit("string", <<97>>)
True == Lit("bool", "true")
False == Lit("bool", "false")
Nil == Lit("nil", "nil")

Literals == {Int0, Int1, Half, Empty, StrA, True, False, Nil}

VarArgs(VS) == {VarArg(v) : v \in VS}

Types == {"int", "string", "bool", "float"}

\* labels L and M may be declared, label U never is
LabelNames == {"L", "M", "U"}

NoLabels == [l \in {} |-> 0]

\* LABEL L is the second instruction
OneLabel == [l \in {"L"} |-> 2]

\* LABEL L is the second and LABEL M the fourth instruction
TwoLabels == [l \in {"L", "M"} |-> IF l = "L" THEN 2 ELSE 4]

StdinOf(lines) == [kind |-> "stdin", lines |-> lines]

FileOf(lines) == [kind |-> "file", lines |-> lines]

\* a source file that holds a well-formed document with the given root
SourceOf(root) == [kind |-> "xml", root |-> root]

\* the root of a program whose instructions the model draws one by one
AnyProgram == Element("program", <<Attr("language", IPPcode21)>>, <<>>)

\* the state after construction, for a program with the given label map
InitWith(label_maps, input_files) ==
    /\ pc = 0
    /\ calls = <<>>
    /\ labels \in label_maps
    /\ executed_count = 0
    /\ lf_stack = <<>>
    /\ gf = EmptyFrame
    /\ tf = EmptyFrame
    /\ tf_created = FALSE
    /\ init_vars = 0
    /\ stack = <<>>
    /\ input_file \in input_files
    /\ inst = NoInst
    /\ exit_code = NoExit
    /\ source_file = SourceOf(AnyProgram)
    /\ xmlroot = <<AnyProgram>>
    /\ stats_path = NoStatsPath
    /\ stats_group = <<>>
    /\ exec_per_inst = <<>>
    /\ stats_file = <<>>
    /\ stderr = <<>>

(***************************************************************************)
(* Programs of frame instructions.                                         *)
(***************************************************************************)
InitFrames == InitWith({NoLabels}, {FileOf(<<>>)})

FrameSources == {Int1, Nil} \cup VarArgs({GFa, TFa, LFa})

NextFrames ==
    \/ EndOfProgram
    \/ Within(MaxFrameSteps) /\ CREATEFRAME
    \/ Within(MaxFrameSteps) /\ PUSHFRAME
    \/ Within(MaxFrameSteps) /\ POPFRAME
    \/ Within(MaxFrameSteps) /\ DEFVAR(VarIds)
    \/ Within(MaxFrameSteps) /\ MOVE(VarIds, FrameSources)

SpecFrames == InitFrames /\ [][NextFrames]_vars

(***************************************************************************)
(* Vocabulary of the properties.  The frames are read from the variables   *)
(* themselves, not through the methods under test.                         *)
(***************************************************************************)
Names == {"a", "b"}

Running == exit_code = NoExit /\ pc < ProgLen

\* is the frame an identifier addresses live
FrameLive(frame_name) ==
    IF frame_name = "LF" THEN Len(lf_stack) > 0
    ELSE IF frame_name = "TF" THEN tf_created
    ELSE TRUE

\* the dict of a live frame
LiveFrame(frame_name) ==
    IF frame_name = "LF" THEN lf_stack[Len(lf_stack)]
    ELSE IF frame_name = "TF" THEN tf
    ELSE gf

Defined(id) == FrameLive(id.frame) /\ id.name \in DOMAIN LiveFrame(id.frame)

Initialized(id) == Defined(id) /\ LiveFrame(id.frame)[id.name].type # None

Slot(id) == LiveFrame(id.frame)[id.name]

\* the same for a state record
LiveFrameOf(s, frame_name) ==
    IF frame_name = "LF" THEN s.lf_stack[Len(s.lf_stack)]
    ELSE IF frame_name = "TF" THEN s.tf
    ELSE s.gf

SlotOf(s, id) == LiveFrameOf(s, id.frame)[id.name]

SameVar(x, y) == x.type = y.type /\ x.value = y.value

SameFrame(f, g) ==
    /\ DOMAIN f = DOMAIN g
    /\ \A n \in DOMAIN f : SameVar(f[n], g[n])

\* frame f is frame g with the slot var_name removed
SameFrameBut(f, g, var_name) ==
    /\ (DOMAIN f) \ {var_name} = (DOMAIN g) \ {var_name}
    /\ \A n \in (DOMAIN f) \ {var_name} : SameVar(f[n], g[n])

SameFrames(fs, gs) ==
    /\ Len(fs) = Len(gs)
    /\ \A k \in 1..Len(fs) : SameFrame(fs[k], gs[k])

Front(seq) == SubSeq(seq, 1, Len(seq) - 1)

Last(seq) == seq[Len(seq)]

\* the instructions that read variable v as their first failing operand
Readers(v) ==
    {Instruction("MOVE", <<VarArg(GFa), VarArg(v)>>),
     Instruction("PUSHS", <<VarArg(v)>>),
     Instruction("WRITE", <<VarArg(v)>>),
     Instruction("EXIT", <<VarArg(v)>>),
     Instruction("DPRINT", <<VarArg(v)>>),
     Instruction("SETCHAR", <<VarArg(v), Int0, StrA>>)}
    \cup {Instruction(op, <<VarArg(GFa), VarArg(v)>>) :
            op \in {"NOT", "INT2CHAR", "INT2FLOAT", "FLOAT2INT", "STRLEN"}}
    \cup {Instruction(op, <<VarArg(GFa), VarArg(v), Int1>>) :
            op \in {"ADD", "SUB", "MUL", "IDIV", "DIV", "LT", "GT", "EQ", "AND",
                    "OR", "CONCAT", "GETCHAR", "STRI2INT"}}
    \cup {Instruction(op, <<VarArg(GFa), StrA, VarArg(v)>>) :
            op \in {"ADD", "SUB", "MUL", "IDIV", "DIV", "LT", "GT", "EQ", "AND",
                    "OR", "CONCAT", "GETCHAR", "STRI2INT"}}
    \cup {Instruction(op, <<LabelArg("L"), VarArg(v), Nil>>) :
            op \in {"JUMPIFEQ", "JUMPIFNEQ"}}
    \cup {Instruction(op, <<LabelArg("U"), True, VarArg(v)>>) :
            op \in {"JUMPIFEQ", "JUMPIFNEQ"}}

(***************************************************************************)
(* C1: reading a variable as a source operand ends the run with            *)
(* UNDEF_FRAME (55) when the addressed frame is not live, otherwise with   *)
(* UNDEF_VAR (54) when the name is not defined in it, otherwise with       *)
(* MISSING_VAL (56) when the variable is uninitialized; otherwise the      *)
(* stored value is what the instruction gets (PUSHS pushes it, MOVE stores *)
(* it in a writable target).                                               *)
(***************************************************************************)
C1_ReadPrecedence ==
    Running =>
        \A v \in VarIds :
            /\ \A i \in Readers(v) :
                LET r == Turn(State, i)
                IN IF ~FrameLive(v.frame) THEN r.exit_code = UNDEF_FRAME
                   ELSE IF ~Defined(v) THEN r.exit_code = UNDEF_VAR
                   ELSE IF ~Initialized(v) THEN r.exit_code = MISSING_VAL
                   ELSE r.exit_code \notin {UNDEF_FRAME, MISSING_VAL}
            /\ Initialized(v) =>
                LET r == Turn(State, Instruction("PUSHS", <<VarArg(v)>>))
                IN /\ r.exit_code = NoExit
                   /\ Len(r.stack) = Len(stack) + 1
                   /\ SameVar(Last(r.stack), Slot(v))
            /\ Initialized(v) =>
                \A t \in VarIds :
                    LET r == Turn(State, Instruction("MOVE", <<VarArg(t), VarArg(v)>>))
                    IN Defined(t) => /\ r.exit_code = NoExit
                                     /\ SameVar(SlotOf(r, t), Slot(v))

\* a MOVE from a defined, uninitialized variable has ended the run with 56
C1_Witness ==
    /\ inst.opcode = "MOVE"
    /\ inst.args[2].type = "var"
    /\ Defined(inst.args[2].value)
    /\ ~Initialized(inst.args[2].value)
    /\ exit_code = MISSING_VAL

(***************************************************************************)
(* C2: DEFVAR FRAME@name ends the run with UNDEF_FRAME (55) when the       *)
(* addressed frame is not live, with UNDEF_REDEF (52) when the name is     *)
(* already present in that frame, and otherwise inserts the name as an     *)
(* uninitialized variable and changes no other variable of any frame.      *)
(***************************************************************************)
C2_Defvar ==
    Running =>
        \A v \in VarIds :
            LET r == Turn(State, Instruction("DEFVAR", <<VarArg(v)>>))
            IN IF ~FrameLive(v.frame) THEN r.exit_code = UNDEF_FRAME
               ELSE IF Defined(v) THEN r.exit_code = UNDEF_REDEF
               ELSE /\ r.exit_code = NoExit
                    /\ v.name \in DOMAIN LiveFrameOf(r, v.frame)
                    /\ SameVar(SlotOf(r, v), UninitVar)
                    /\ r.tf_created = tf_created
                    /\ Len(r.lf_stack) = Len(lf_stack)
                    /\ SameFrames(Front(r.lf_stack), Front(lf_stack))
                    /\ IF v.frame = "LF"
                       THEN SameFrameBut(Last(r.lf_stack), Last(lf_stack), v.name)
                       ELSE lf_stack # <<>> =>
                                SameFrame(Last(r.lf_stack), Last(lf_stack))
                    /\ IF v.frame = "TF" THEN SameFrameBut(r.tf, tf, v.name)
                       ELSE SameFrame(r.tf, tf)
                    /\ IF v.frame = "GF" THEN SameFrameBut(r.gf, gf, v.name)
                       ELSE SameFrame(r.gf, gf)

\* DEFVAR GF@b has inserted b, uninitialized, next to the initialized GF@a
C2_Witness ==
    /\ inst.opcode = "DEFVAR"
    /\ inst.args[1].value = GFb
    /\ exit_code = NoExit
    /\ Initialized(GFa)
    /\ Defined(GFb)
    /\ ~Initialized(GFb)

(***************************************************************************)
(* C3: PUSHFRAME ends the run with UNDEF_FRAME (55) when TF does not       *)
(* exist; otherwise the new top of the local-frame stack is exactly the    *)
(* former TF (each of its variables is LF@name with the same type and      *)
(* value, and DEFVAR LF@name of it gives 52) and TF no longer exists: any  *)
(* read, write or DEFVAR of TF@x gives 55, and no instruction other than   *)
(* CREATEFRAME and POPFRAME makes TF exist again.                          *)
(***************************************************************************)
TFAccesses(x) ==
    {Instruction("DEFVAR", <<VarArg(VarId("TF", x))>>),
     Instruction("MOVE", <<VarArg(VarId("TF", x)), Int1>>),
     Instruction("MOVE", <<VarArg(GFa), VarArg(VarId("TF", x))>>),
     Instruction("PUSHS", <<VarArg(VarId("TF", x))>>),
     Instruction("TYPE", <<VarArg(GFa), VarArg(VarId("TF", x))>>),
     Instruction("READ", <<VarArg(VarId("TF", x)), TypeArg("int")>>)}

\* instructions of every opcode but CREATEFRAME and POPFRAME that can run
\* without ending the program
NotFrameCreating ==
    {Instruction("PUSHFRAME", <<>>), Instruction("CLEARS", <<>>),
     Instruction("BREAK", <<>>), Instruction("PUSHS", <<Int1>>),
     Instruction("WRITE", <<Int1>>), Instruction("DPRINT", <<Int1>>)}
    \cup {Instruction("DEFVAR", <<VarArg(v)>>) : v \in VarIds}
    \cup {Instruction("MOVE", <<VarArg(v), Int1>>) : v \in VarIds}
    \cup {Instruction("READ", <<VarArg(v), TypeArg("int")>>) : v \in VarIds}
    \cup {Instruction("TYPE", <<VarArg(v), Int1>>) : v \in VarIds}

C3_Pushframe ==
    Running =>
        /\ LET r == Turn(State, Instruction("PUSHFRAME", <<>>))
           IN IF ~tf_created THEN r.exit_code = UNDEF_FRAME
              ELSE /\ r.exit_code = NoExit
                   /\ Len(r.lf_stack) = Len(lf_stack) + 1
                   /\ SameFrame(Last(r.lf_stack), tf)
                   /\ SameFrames(Front(r.lf_stack), lf_stack)
                   /\ ~r.tf_created
                   /\ SameFrame(r.gf, gf)
                   /\ \A n \in DOMAIN tf :
                        Turn(r, Instruction("DEFVAR", <<VarArg(VarId("LF", n))>>)).exit_code
                            = UNDEF_REDEF
                   /\ \A n \in DOMAIN tf :
                        tf[n].type # None =>
                            LET q == Turn(r, Instruction("PUSHS", <<VarArg(VarId("LF", n))>>))
                            IN q.exit_code = NoExit /\ SameVar(Last(q.stack), tf[n])
                   /\ \A x \in Names : \A i \in TFAccesses(x) :
                        Turn(r, i).exit_code = UNDEF_FRAME
        /\ ~tf_created =>
              /\ \A x \in Names : \A i \in TFAccesses(x) :
                    Turn(State, i).exit_code = UNDEF_FRAME
              /\ \A i \in NotFrameCreating : ~Turn(State, i).tf_created

\* PUSHFRAME has moved a TF holding the initialized variable a to the stack
C3_Witness ==
    /\ inst.opcode = "PUSHFRAME"
    /\ exit_code = NoExit
    /\ ~tf_created
    /\ Initialized(LFa)

(***************************************************************************)
(* C4: POPFRAME ends the run with UNDEF_FRAME (55) when the local-frame    *)
(* stack is empty; otherwise the top local frame is removed from the stack *)
(* and becomes the temporary frame, which exists afterwards and holds      *)
(* exactly that frame's variables and values whatever TF held before, and  *)
(* the frame below, if any, is the current LF.                             *)
(***************************************************************************)
C4_Popframe ==
    Running =>
        LET r == Turn(State, Instruction("POPFRAME", <<>>))
        IN IF Len(lf_stack) = 0 THEN r.exit_code = UNDEF_FRAME
           ELSE /\ r.exit_code = NoExit
                /\ r.tf_created
                /\ SameFrame(r.tf, Last(lf_stack))
                /\ SameFrames(r.lf_stack, Front(lf_stack))
                /\ SameFrame(r.gf, gf)
                /\ Len(lf_stack) > 1 =>
                     SameFrame(get_lf(r), lf_stack[Len(lf_stack) - 1])
                /\ \A n \in DOMAIN Last(lf_stack) :
                     Turn(r, Instruction("DEFVAR", <<VarArg(VarId("TF", n))>>)).exit_code
                         = UNDEF_REDEF

\* POPFRAME has made the frame holding the initialized variable a the TF,
\* and a frame that was below it is the current LF
C4_Witness ==
    /\ inst.opcode = "POPFRAME"
    /\ exit_code = NoExit
    /\ tf_created
    /\ Initialized(TFa)
    /\ Len(lf_stack) > 0

(***************************************************************************)
(* Programs of jumps, calls and data-stack pushes.                         *)
(***************************************************************************)
InitJumps == InitWith({NoLabels, OneLabel, TwoLabels}, {FileOf(<<>>)})

JumpSymbs == {Int1, StrA, Nil}

NextJumps ==
    \/ EndOfProgram
    \/ Within(MaxJumpSteps) /\ LABEL
    \/ Within(MaxJumpSteps) /\ CALL(LabelNames)
    \/ Within(MaxJumpSteps) /\ RETURN
    \/ Within(MaxJumpSteps) /\ JUMP(LabelNames)
    \/ Within(MaxJumpSteps) /\ JUMPIFEQ(LabelNames, JumpSymbs)
    \/ Within(MaxJumpSteps) /\ JUMPIFNEQ(LabelNames, JumpSymbs)
    \/ Within(MaxJumpSteps) /\ JUMPIFEQS(LabelNames)
    \/ Within(MaxJumpSteps) /\ JUMPIFNEQS(LabelNames)
    \/ Within(MaxJumpSteps) /\ PUSHS(JumpSymbs)
    \/ Within(MaxJumpSteps) /\ CLEARS
    \/ Within(MaxJumpSteps) /\ CREATEFRAME
    \/ Within(MaxJumpSteps) /\ PUSHFRAME

SpecJumps == InitJumps /\ [][NextJumps]_vars

C5_Turn ==
    \/ exit_code' = SUCCESS /\ pc' = pc /\ inst' = inst
    \/ /\ inst'.opcode = "CALL" =>
            /\ calls' = Append(calls, pc + 1)
            /\ inst'.args[1].value \in DOMAIN labels =>
                    exit_code' = NoExit /\ pc' = labels[inst'.args[1].value]
       /\ inst'.opcode = "RETURN" /\ calls # <<>> =>
            /\ exit_code' = NoExit
            /\ pc' = Last(calls)
            /\ calls' = Front(calls)
       /\ inst'.opcode = "RETURN" /\ calls = <<>> =>
            exit_code' = MISSING_VAL
       /\ inst'.opcode \notin {"CALL", "RETURN"} => calls' = calls

(***************************************************************************)
(* C5: CALL pushes the index of the instruction after the CALL onto the    *)
(* call stack and jumps to the label; RETURN pops the most recently pushed *)
(* index into pc; no other instruction touches the call stack, whatever it *)
(* does to the data stack and the frames.  So every RETURN resumes right   *)
(* after the most recent CALL not yet returned from.                       *)
(***************************************************************************)
C5_CallReturn == [][C5_Turn]_vars

\* a RETURN has resumed after the inner of two nested CALLs, the outer CALL
\* still waiting on the call stack
C5_Witness ==
    /\ inst.opcode = "RETURN"
    /\ exit_code = NoExit
    /\ Len(calls) = 1
    /\ pc # calls[1]
    /\ labels = TwoLabels

\* the source operands that can be read in the current state
Readable == Literals \cup {VarArg(v) : v \in {w \in VarIds : Initialized(w)}}

(***************************************************************************)
(* C6: JUMP, CALL, JUMPIFEQ, JUMPIFNEQ, JUMPIFEQS and JUMPIFNEQS with a    *)
(* label no LABEL declares end the run with UNDEF_REDEF (52) whenever the  *)
(* operands can be read or popped: for the conditional jumps whether the   *)
(* comparison is true, false or a type mismatch.                           *)
(***************************************************************************)
C6_UndefinedLabel ==
    Running =>
        \A l \in LabelNames \ DOMAIN labels :
            /\ \A op \in {"JUMP", "CALL"} :
                Turn(State, Instruction(op, <<LabelArg(l)>>)).exit_code = UNDEF_REDEF
            /\ \A op \in {"JUMPIFEQ", "JUMPIFNEQ"} :
                \A symb1 \in Readable, symb2 \in Readable :
                    Turn(State, Instruction(op, <<LabelArg(l), symb1, symb2>>)).exit_code
                        = UNDEF_REDEF
            /\ Len(stack) >= 2 =>
                \A op \in {"JUMPIFEQS", "JUMPIFNEQS"} :
                    Turn(State, Instruction(op, <<LabelArg(l)>>)).exit_code = UNDEF_REDEF

\* a JUMPIFEQ to an undeclared label whose operands have different types has
\* ended the run with 52
C6_Witness ==
    /\ inst.opcode = "JUMPIFEQ"
    /\ inst.args[1].value \notin DOMAIN labels
    /\ inst.args[2].type = "int"
    /\ inst.args[3].type = "string"
    /\ exit_code = UNDEF_REDEF

(***************************************************************************)
(* Programs of arithmetic, comparison and conditional jumps over two       *)
(* global variables and the data stack.                                    *)
(***************************************************************************)
InitArith == InitWith({OneLabel}, {FileOf(<<>>)})

ArithVars == {GFa, GFb}

ArithSymbs == {Int1, Half, StrA, Nil, VarArg(GFa)}

NextArith ==
    \/ EndOfProgram
    \/ Within(MaxArithSteps) /\ LABEL
    \/ Within(MaxArithSteps) /\ DEFVAR(ArithVars)
    \/ Within(MaxArithSteps) /\ MOVE(ArithVars, Literals)
    \/ Within(MaxArithSteps) /\ PUSHS(ArithSymbs)
    \/ Within(MaxArithSteps) /\ POPS({GFa})
    \/ Within(MaxArithSteps) /\ ADD({GFa}, ArithSymbs)
    \/ Within(MaxArithSteps) /\ SUB({GFa}, ArithSymbs)
    \/ Within(MaxArithSteps) /\ MUL({GFa}, ArithSymbs)
    \/ Within(MaxArithSteps) /\ DIV({GFa}, ArithSymbs)
    \/ Within(MaxArithSteps) /\ EQ({GFa}, ArithSymbs)
    \/ Within(MaxArithSteps) /\ ADDS
    \/ Within(MaxArithSteps) /\ SUBS
    \/ Within(MaxArithSteps) /\ MULS
    \/ Within(MaxArithSteps) /\ DIVS
    \/ Within(MaxArithSteps) /\ EQS
    \/ Within(MaxArithSteps) /\ JUMPIFEQ({"L"}, ArithSymbs)
    \/ Within(MaxArithSteps) /\ JUMPIFNEQ({"L"}, ArithSymbs)

SpecArith == InitArith /\ [][NextArith]_vars

\* the operands the properties range over: every literal of the inputs, a
\* negative int, and the variables that hold a value
Operand == Readable \cup {Lit("int", -1)}

\* one more instruction of a run, nothing once the run has ended
Run(s, i) == IF s.exit_code = NoExit THEN Turn(s, i) ELSE s

\* `OP t x y`
Direct(op, t, x, y) == Turn(State, Instruction(op, <<VarArg(t), x, y>>))

\* `PUSHS x; PUSHS y; OPS; POPS t`
ViaStack(op, t, x, y) ==
    LET s1 == Turn(State, Instruction("PUSHS", <<x>>))
        s2 == Run(s1, Instruction("PUSHS", <<y>>))
        s3 == Run(s2, Instruction(op \o "S", <<>>))
    IN Run(s3, Instruction("POPS", <<VarArg(t)>>))

\* `OP t x`
Direct1(op, t, x) == Turn(State, Instruction(op, <<VarArg(t), x>>))

\* `PUSHS x; OPS; POPS t`
ViaStack1(op, t, x) ==
    LET s1 == Turn(State, Instruction("PUSHS", <<x>>))
        s2 == Run(s1, Instruction(op \o "S", <<>>))
    IN Run(s2, Instruction("POPS", <<VarArg(t)>>))

\* both runs ended with the same code, or both go on with the same value in t
SameOutcome(s1, s2, t) ==
    /\ s1.exit_code = s2.exit_code
    /\ s1.exit_code = NoExit => SameVar(SlotOf(s1, t), SlotOf(s2, t))

BinaryOps == {"ADD", "SUB", "MUL", "IDIV", "DIV", "LT", "GT", "EQ", "AND", "OR",
              "STRI2INT"}

UnaryOps == {"NOT", "INT2CHAR", "INT2FLOAT", "FLOAT2INT"}

(***************************************************************************)
(* C7: for every operation OP with a stack variant and all initialized     *)
(* operands x, y of any types, `OP t x y` ends in the same outcome as      *)
(* `PUSHS x; PUSHS y; OPS; POPS t`: the same value stored in t or the same *)
(* error code.                                                             *)
(***************************************************************************)
C7_StackEquivalence ==
    Running =>
        \A t \in ArithVars, x \in Operand :
            /\ \A op \in UnaryOps :
                SameOutcome(Direct1(op, t, x), ViaStack1(op, t, x), t)
            /\ \A op \in BinaryOps, y \in Operand :
                SameOutcome(Direct(op, t, x, y), ViaStack(op, t, x, y), t)

\* the value an operand stands for
ValueOf(symb) ==
    IF symb.type = "var" THEN Slot(symb.value) ELSE Var(symb.type, symb.value)

Numeric(a, b) == a.type = b.type /\ a.type \in {"int", "float"}

\* the int an arithmetic operation yields
IntResult(op, m, n) ==
    IF op = "ADD" THEN m + n ELSE IF op = "SUB" THEN m - n ELSE m * n

\* ADD, SUB or MUL of two ints or two floats stores a value of that type, for
\* ints the sum, difference or product
StoresNumber(op, t, a, b, after) ==
    /\ after.exit_code = NoExit
    /\ SlotOf(after, t).type = a.type
    /\ a.type = "int" =>
            SameVar(SlotOf(after, t), Var("int", IntResult(op, Val(a), Val(b))))

(***************************************************************************)
(* C8 as stated: ADD of two strings stores their concatenation; SUB and    *)
(* MUL of two strings, and ADD, SUB, MUL of operands of different or other *)
(* types, end the run with BAD_OPERAND_TYPE (53).                          *)
(***************************************************************************)
C8_AddConcatenates ==
    Running =>
        \A t \in ArithVars, x \in Operand, y \in Operand :
            \A op \in {"ADD", "SUB", "MUL"} :
                LET a == ValueOf(x)
                    b == ValueOf(y)
                    after == Direct(op, t, x, y)
                IN Defined(t) =>
                    IF Numeric(a, b) THEN StoresNumber(op, t, a, b, after)
                    ELSE IF op = "ADD" /\ a.type = "string" /\ b.type = "string"
                    THEN /\ after.exit_code = NoExit
                         /\ SameVar(SlotOf(after, t),
                                    Var("string", Val(a) \o Val(b)))
                    ELSE after.exit_code = BAD_OPERAND_TYPE

(***************************************************************************)
(* C8 (amended): ADD, SUB and MUL accept two ints or two floats and store  *)
(* the result in the target; on any other pair of operand types, two       *)
(* strings included, each of them ends the run with BAD_OPERAND_TYPE (53). *)
(* Two strings are concatenated by CONCAT, not by ADD.                     *)
(***************************************************************************)
C8_Arithmetic ==
    Running =>
        \A t \in ArithVars, x \in Operand, y \in Operand :
            LET a == ValueOf(x)
                b == ValueOf(y)
            IN /\ \A op \in {"ADD", "SUB", "MUL"} :
                    LET after == Direct(op, t, x, y)
                    IN IF Numeric(a, b)
                       THEN Defined(t) => StoresNumber(op, t, a, b, after)
                       ELSE after.exit_code = BAD_OPERAND_TYPE
               /\ Defined(t) /\ a.type = "string" /\ b.type = "string" =>
                    LET after == Direct("CONCAT", t, x, y)
                    IN /\ after.exit_code = NoExit
                       /\ SameVar(SlotOf(after, t),
                                  Var("string", Val(a) \o Val(b)))

\* an ADD of two strings into a defined variable has ended the run with 53
C8_Witness ==
    /\ inst.opcode = "ADD"
    /\ Defined(inst.args[1].value)
    /\ inst.args[2].type = "string"
    /\ inst.args[3].type = "string"
    /\ exit_code = BAD_OPERAND_TYPE

\* what EQ of the values a and b is to yield: a bool token, or None for 53
Equal(a, b) ==
    IF a.type = "nil" \/ b.type = "nil"
    THEN BoolTok(a.type = "nil" /\ b.type = "nil")
    ELSE IF a.type = b.type THEN BoolTok(Val(a) = Val(b))
    ELSE None

\* the run has gone on with the bool token e in slot
Yields(after, slot, e) ==
    IF e = None THEN after.exit_code = BAD_OPERAND_TYPE
    ELSE after.exit_code = NoExit /\ SameVar(slot, Var("bool", e))

\* the conditional jump to label l has been taken exactly when taken holds
Jumps(after, l, e, taken) ==
    IF e = None THEN after.exit_code = BAD_OPERAND_TYPE
    ELSE /\ after.exit_code = NoExit
         /\ after.pc = IF taken THEN labels[l] ELSE pc + 1

(***************************************************************************)
(* C9: EQ and EQS with at least one nil operand never end with             *)
(* BAD_OPERAND_TYPE: the result is bool true iff both operands are nil.    *)
(* Two non-nil operands are compared by value when their types match and   *)
(* end the run with BAD_OPERAND_TYPE (53) when they differ.  JUMPIFEQ      *)
(* jumps exactly when EQ on the same operands yields true, JUMPIFNEQ       *)
(* exactly when it yields false.                                           *)
(***************************************************************************)
C9_Equality ==
    Running =>
        \A x \in Operand, y \in Operand :
            LET e == Equal(ValueOf(x), ValueOf(y))
                eq == Direct("EQ", GFa, x, y)
                s1 == Turn(State, Instruction("PUSHS", <<x>>))
                s2 == Run(s1, Instruction("PUSHS", <<y>>))
                eqs == Run(s2, Instruction("EQS", <<>>))
            IN /\ Defined(GFa) => Yields(eq, SlotOf(eq, GFa), e)
               /\ Yields(eqs, Last(eqs.stack), e)
               /\ eqs.exit_code = NoExit => Front(eqs.stack) = stack
               /\ \A l \in DOMAIN labels :
                    labels[l] # pc + 1 =>
                        /\ Jumps(Turn(State, Instruction("JUMPIFEQ",
                                    <<LabelArg(l), x, y>>)), l, e, e = "true")
                        /\ Jumps(Turn(State, Instruction("JUMPIFNEQ",
                                    <<LabelArg(l), x, y>>)), l, e, e = "false")

\* an EQ of nil and an int has stored bool false
C9_Witness ==
    /\ inst.opcode = "EQ"
    /\ inst.args[2].type = "nil"
    /\ inst.args[3].type = "int"
    /\ exit_code = NoExit
    /\ SameVar(Slot(GFa), Var("bool", "false"))

(***************************************************************************)
(* Programs that read the input, given on standard input or in a file.     *)
(***************************************************************************)
\* the lines "1", "true", "a", "-1", "TRUE" and the empty line
InputLines ==
    {<<49>>, <<116, 114, 117, 101>>, <<97>>, <<45, 49>>, <<84, 82, 85, 69>>, <<>>}

Inputs ==
    {<<>>} \cup {<<l>> : l \in InputLines}
           \cup {<<l1, l2>> : l1 \in InputLines, l2 \in InputLines}

InitRead ==
    InitWith({NoLabels},
             {FileOf(lines) : lines \in Inputs} \cup {StdinOf(lines) : lines \in Inputs})

NextRead ==
    \/ EndOfProgram
    \/ Within(MaxReadSteps) /\ DEFVAR(ArithVars)
    \/ Within(MaxReadSteps) /\ READ(ArithVars, Types)
    \/ Within(MaxReadSteps) /\ MOVE(ArithVars, {Int1} \cup VarArgs(ArithVars))

SpecRead == InitRead /\ [][NextRead]_vars

(***************************************************************************)
(* C10: when the input is exhausted, READ stores nil (type nil) in the     *)
(* target variable for every requested type int, float, string and bool,   *)
(* and execution continues with the next instruction.                      *)
(***************************************************************************)
C10_ReadAtEof ==
    Running /\ input_file.lines = <<>> =>
        \A t \in ArithVars, type_ \in Types :
            LET after == Turn(State, Instruction("READ", <<VarArg(t), TypeArg(type_)>>))
            IN Defined(t) =>
                /\ after.exit_code = NoExit
                /\ after.pc = pc + 1
                /\ SameVar(SlotOf(after, t), Var("nil", "nil"))

\* an optional sign followed by decimal digits
DecimalInteger(line) ==
    LET digits == IF line # <<>> /\ line[1] \in {43, 45} THEN Tail(line) ELSE line
    IN digits # <<>> /\ \A k \in 1..Len(digits) : digits[k] \in 48..57

RECURSIVE Decimal(_)
Decimal(digits) ==
    IF digits = <<>> THEN 0
    ELSE Decimal(Front(digits)) * 10 + (Last(digits) - 48)

DecimalValue(line) ==
    IF line[1] = 45 THEN 0 - Decimal(Tail(line))
    ELSE IF line[1] = 43 THEN Decimal(Tail(line))
    ELSE Decimal(line)

\* the line is TRUE in any mix of upper and lower case
IsTrueText(line) ==
    /\ Len(line) = 4
    /\ \A k \in 1..4 : line[k] \in {TRUE_TEXT[k], TRUE_TEXT[k] + 32}

(***************************************************************************)
(* C11: with a line of input available, READ into a defined variable of a  *)
(* live frame does not terminate the program for any requested type: int   *)
(* stores the parsed integer, or nil when the line is not a decimal        *)
(* integer; bool stores true exactly when the line is TRUE in any case,    *)
(* otherwise false; string stores the line; afterwards the variable is     *)
(* initialized with the requested type or nil, and pc has advanced by one. *)
(***************************************************************************)
C11_ReadDecodes ==
    Running /\ input_file.lines # <<>> =>
        \A t \in ArithVars, type_ \in Types :
            LET line == Head(input_file.lines)
                after == Turn(State, Instruction("READ", <<VarArg(t), TypeArg(type_)>>))
                slot == SlotOf(after, t)
            IN Defined(t) =>
                /\ after.exit_code = NoExit
                /\ after.pc = pc + 1
                /\ slot.value # <<>>
                /\ slot.type \in {type_, "nil"}
                /\ type_ = "int" =>
                       IF DecimalInteger(line)
                       THEN SameVar(slot, Var("int", DecimalValue(line)))
                       ELSE SameVar(slot, Var("nil", "nil"))
                /\ type_ = "bool" =>
                       SameVar(slot, Var("bool", IF IsTrueText(line) THEN "true"
                                                                     ELSE "false"))
                /\ type_ = "string" => SameVar(slot, Var("string", line))

\* READ bool has stored true, as it does for the lines "true" and "TRUE"
C11_Witness ==
    /\ inst.opcode = "READ"
    /\ inst.args[2].value = "bool"
    /\ exit_code = NoExit
    /\ \E t \in ArithVars : Defined(t) /\ SameVar(Slot(t), Var("bool", "true"))

(***************************************************************************)
(* Programs that define and initialize variable a in each frame.           *)
(***************************************************************************)
InitVars == InitWith({NoLabels}, {FileOf(<<>>)})

CountedVars == {GFa, TFa, LFa}

NextVars ==
    \/ EndOfProgram
    \/ Within(MaxVarsSteps) /\ CREATEFRAME
    \/ Within(MaxVarsSteps) /\ PUSHFRAME
    \/ Within(MaxVarsSteps) /\ POPFRAME
    \/ Within(MaxVarsSteps) /\ DEFVAR(CountedVars)
    \/ Within(MaxVarsSteps) /\ MOVE(CountedVars, {Int1, VarArg(GFa)})

SpecVars == InitVars /\ [][NextVars]_vars

\* the initialized variables of a frame
InitializedIn(frame) == {n \in DOMAIN frame : frame[n].value # <<>>}

\* the initialized variables visible now: in GF, in the top LF and in TF
VisibleCount ==
    Cardinality(InitializedIn(gf))
    + (IF lf_stack = <<>> THEN 0 ELSE Cardinality(InitializedIn(Last(lf_stack))))
    + Cardinality(InitializedIn(tf))

\* one step keeps the vars statistic at the greatest count seen
C15_Boundary ==
    init_vars' = IF VisibleCount' > init_vars THEN VisibleCount' ELSE init_vars

(***************************************************************************)
(* C15: the vars statistic is the maximum, over the instruction boundaries *)
(* reached so far, of the number of initialized variables in GF, the top   *)
(* LF and TF: it starts at the initial number, and every step leaves it at *)
(* the greater of its old value and the number after the step.             *)
(***************************************************************************)
C15_VarsMaximum == init_vars = VisibleCount /\ [][C15_Boundary]_vars

\* POPFRAME has made two initialized variables visible with none in GF
C15_Witness ==
    /\ inst.opcode = "POPFRAME"
    /\ exit_code = NoExit
    /\ InitializedIn(gf) = {}
    /\ VisibleCount = 2
    /\ init_vars = 2

(***************************************************************************)
(* Whole programs run with a statistics file: every program of up to       *)
(* MaxStatsLen instructions over the shapes below, numbered 1, 2, ... in   *)
(* document order, two programs whose elements are not in the order of    *)
(* their order attributes, and one that calls a subroutine twice.          *)
(***************************************************************************)
Shapes ==
    {Instruction("DEFVAR", <<VarArg(GFa)>>),
     Instruction("defvar", <<VarArg(GFb)>>),
     Instruction("MOVE", <<VarArg(GFa), IntText(<<49>>)>>),
     Instruction("LABEL", <<LabelArg("L")>>),
     Instruction("JUMP", <<LabelArg("L")>>),
     Instruction("DPRINT", <<IntText(<<49>>)>>),
     Instruction("BREAK", <<>>),
     Instruction("EXIT", <<IntText(<<48>>)>>)}

ProgramOf(elements) ==
    Element("program", <<Attr("language", IPPcode21)>>, elements)

InOrder(shapes) ==
    ProgramOf([k \in 1..Len(shapes) |->
                  InstructionElement(shapes[k].opcode, DecimalText(k), shapes[k].args)])

\* MOVE, DEFVAR and MOVE with orders 3, 1, 2: DEFVAR; MOVE; MOVE
MoveFirst ==
    ProgramOf(<<InstructionElement("MOVE", <<51>>, <<VarArg(GFa), IntText(<<49>>)>>),
                InstructionElement("DEFVAR", <<49>>, <<VarArg(GFa)>>),
                InstructionElement("MOVE", <<50>>, <<VarArg(GFa), IntText(<<49>>)>>)>>)

\* EXIT and DEFVAR with orders 7 and 5: DEFVAR; EXIT
ExitFirst ==
    ProgramOf(<<InstructionElement("EXIT", <<55>>, <<IntText(<<48>>)>>),
                InstructionElement("DEFVAR", <<53>>, <<VarArg(GFa)>>)>>)

\* CALL L; CALL L; EXIT int@0; LABEL L; RETURN
CallTwice ==
    InOrder(<<Instruction("CALL", <<LabelArg("L")>>),
              Instruction("CALL", <<LabelArg("L")>>),
              Instruction("EXIT", <<IntText(<<48>>)>>),
              Instruction("LABEL", <<LabelArg("L")>>),
              Instruction("RETURN", <<>>)>>)

StatsPrograms ==
    {InOrder(shapes) : shapes \in UNION {[1..n -> Shapes] : n \in 0..MaxStatsLen}}
    \cup {MoveFirst, ExitFirst, CallTwice}

StatsGroups ==
    {<<>>, <<"--insts">>, <<"--hot">>, <<"--vars">>, <<"--insts", "--hot", "--vars">>,
     <<"--hot", "--insts">>}

\* stats_path and stats_group as parse_args returns them
StatsArgs ==
    {<<NoStatsPath, <<>>>>, <<UnwritablePath, <<"--insts">>>>}
    \cup {<<WritablePath, group>> : group \in StatsGroups}

InitStats ==
    \E root \in StatsPrograms, args \in StatsArgs :
        LET s == parse(Boot(SourceOf(root), FileOf(<<>>), args[1], args[2]))
        IN s.exit_code = NoExit /\ Holds(s)

NextStats ==
    \/ Within(MaxStatsSteps) /\ Dispatch
    \/ Finish

SpecStats == InitStats /\ [][NextStats]_vars

\* the semantic error classes
SemanticErrors == 52..58

\* the statistics file exists with one line for each entry of stats_group
StatsWritten(file, group) == file # <<>> /\ Len(file[1]) = Len(group)

(***************************************************************************)
(* C12: when a statistics file is configured and the run ends with a       *)
(* semantic error (exit codes 52 to 58), the selected statistics have been *)
(* written to the file when the process exits with that code.              *)
(***************************************************************************)
C12_ErrorFlushesStats ==
    exit_code \in SemanticErrors /\ stats_path = WritablePath =>
        StatsWritten(stats_file, stats_group)

\* the parsed program is at its end: next() returns None
AtEnd ==
    /\ exit_code = NoExit
    /\ xmlroot # <<>>
    /\ pc >= Len(instructions(State))

\* the instruction that next() returns
Fetched == instructions(State)[pc + 1]

\* the next instruction is an EXIT with a valid code
AtExit ==
    /\ exit_code = NoExit
    /\ xmlroot # <<>>
    /\ pc < Len(instructions(State))
    /\ Fetched.opcode = "EXIT"
    /\ Fetched.args[1].type = "int"
    /\ Fetched.args[1].value \in 0..49

\* the opcodes that count for the hot statistic
HotOpcodes(counts) ==
    {counts[k].opcode : k \in 1..Len(counts)} \ {"LABEL", "BREAK", "DPRINT"}

CountOf(counts, opcode) ==
    IF \E k \in 1..Len(counts) : counts[k].opcode = opcode
    THEN counts[CHOOSE k \in 1..Len(counts) : counts[k].opcode = opcode].count
    ELSE 0

\* the opcodes with the greatest count among those that count
MostExecuted(counts) ==
    {o \in HotOpcodes(counts) :
        \A q \in HotOpcodes(counts) : CountOf(counts, q) <= CountOf(counts, o)}

\* the orders of the instructions of the program with one of the opcodes
OrdersOf(opcodes) ==
    LET children == xmlroot[1].children
    IN {DecimalValue(children[k].order) :
           k \in {j \in 1..Len(children) : OpcodeUpper(children[j].opcode) \in opcodes}}

Least(S) == CHOOSE n \in S : \A m \in S : n <= m

\* the hot statistic for the given execution counts
Hot(counts) == Least(OrdersOf(MostExecuted(counts)))

\* every --hot line of the file holds n
HotLineIs(file, group, n) ==
    /\ StatsWritten(file, group)
    /\ \A k \in 1..Len(group) : group[k] = "--hot" => file[1][k] = n

(***************************************************************************)
(* C13: at the end of a program that executed at least one counted         *)
(* instruction, the hot statistic written is the least order among the     *)
(* instructions whose opcode has the greatest execution count, LABEL,      *)
(* BREAK and DPRINT excluded; when several opcodes tie for the greatest    *)
(* count it is the least order among the instructions of all of them.      *)
(***************************************************************************)
C13_HotAtEnd ==
    [][AtEnd /\ stats_path = WritablePath /\ HotOpcodes(exec_per_inst) # {}
           => HotLineIs(stats_file', stats_group, Hot(exec_per_inst))]_vars

\* the counts at an EXIT, the EXIT itself counted
WithExit(counts) ==
    IF \E k \in 1..Len(counts) : counts[k].opcode = "EXIT"
    THEN [k \in 1..Len(counts) |->
             IF counts[k].opcode = "EXIT"
             THEN [opcode |-> "EXIT", count |-> counts[k].count + 1]
             ELSE counts[k]]
    ELSE Append(counts, [opcode |-> "EXIT", count |-> 1])

(***************************************************************************)
(* C14: when the run ends through EXIT with a valid code, the statistics   *)
(* are computed by the rules of the end of program: hot is the least order *)
(* of the most executed opcode, LABEL, BREAK and DPRINT excluded, and not  *)
(* of the opcode that was executed first.                                  *)
(***************************************************************************)
C14_HotAtExit ==
    [][AtExit /\ stats_path = WritablePath
           => HotLineIs(stats_file', stats_group, Hot(WithExit(exec_per_inst)))]_vars

\* an instruction is about to be dispatched
AtInstruction ==
    /\ exit_code = NoExit
    /\ xmlroot # <<>>
    /\ pc < Len(instructions(State))

\* the statistics file is created by the step
StatsFileCreated == stats_file = <<>> /\ stats_file' # <<>>

\* every --insts line that the file holds is n
InstsLineIs(file, group, n) ==
    \A k \in 1..Len(group) :
        group[k] = "--insts" /\ k <= Len(file[1]) => file[1][k] = n

\* one step of the interpreter keeps the number of counted instructions
C16_Step ==
    /\ AtInstruction /\ Fetched.opcode \in {"LABEL", "BREAK", "DPRINT"}
            => executed_count' = executed_count
    /\ AtInstruction /\ Fetched.opcode \notin {"LABEL", "BREAK", "DPRINT"}
            => executed_count' = executed_count + 1
    /\ AtEnd => executed_count' = executed_count
    /\ StatsFileCreated => InstsLineIs(stats_file', stats_group, executed_count')

(***************************************************************************)
(* C16: whenever statistics are written, at the end of the program or at   *)
(* EXIT, insts is the number of instructions dispatched so far whose       *)
(* opcode is not LABEL, BREAK or DPRINT, the EXIT that ends the run        *)
(* included, an instruction counted once for each time it is executed:     *)
(* the count starts at 0, the dispatch of a counted instruction adds one   *)
(* to it, every other step leaves it alone, and the line written holds it. *)
(***************************************************************************)
C16_InstsCount == executed_count = 0 /\ [][C16_Step]_vars

\* CALL L; CALL L; EXIT int@0; LABEL L; RETURN has run LABEL and RETURN
\* twice, and EXIT wrote 5 for CALL, RETURN, CALL, RETURN and EXIT
C16_Witness ==
    /\ inst.opcode = "EXIT"
    /\ exit_code = 0
    /\ Len(instructions(State)) = 5
    /\ stats_group = <<"--insts">>
    /\ stats_file = <<<<5>>>>

(***************************************************************************)
(* C17: a run that reaches the end of the program exits with code 0 for    *)
(* every selection of statistics when the statistics file is writable,     *)
(* also for a program with no instructions, or one that executes only      *)
(* LABEL, BREAK and DPRINT, with --hot selected.                           *)
(***************************************************************************)
C17_EndExitsZero ==
    [][AtEnd /\ stats_path # UnwritablePath => exit_code' = SUCCESS]_vars

\* the operands of EXIT that can be read
ExitSymbs ==
    {Int0, Int1, Lit("int", 49), Lit("int", 50), Lit("int", 0 - 1), StrA, True, Nil,
     VarArg(GFa)}

(***************************************************************************)
(* C18: EXIT with an initialized int operand v exits with code v when      *)
(* 0 <= v <= 49 and with BAD_OPERAND_VAL (57) when v is outside that       *)
(* range; with an operand of another type it ends with BAD_OPERAND_TYPE    *)
(* (53); in each case the process has exited, so that no instruction       *)
(* after the EXIT is executed.                                            *)
(***************************************************************************)
C18_ExitCodes ==
    exit_code = NoExit /\ xmlroot # <<>> =>
        \A symb \in ExitSymbs :
            LET after == Turn(State, Instruction("EXIT", <<symb>>))
                r == const_var(State, symb, TRUE)
            IN r.err = 0 =>
                IF r.var.type # "int" THEN after.exit_code = BAD_OPERAND_TYPE
                ELSE IF Val(r.var) \in 0..49 THEN after.exit_code = Val(r.var)
                ELSE after.exit_code = BAD_OPERAND_VAL

(***************************************************************************)
(* Loading: source files that are missing, not well-formed, or documents   *)
(* whose root has one of three tags and up to two attributes, with no      *)
(* instruction or with DEFVAR GF@a.                                        *)
(***************************************************************************)
\* the texts ippcode21, IPPcode20 and x
ippcode21 == <<105, 112, 112, 99, 111, 100, 101, 50, 49>>

IPPcode20 == <<73, 80, 80, 99, 111, 100, 101, 50, 48>>

TextX == <<120>>

RootTags == {"program", "Program", "prog"}

RootAttrs ==
    {Attr("language", IPPcode21), Attr("language", ippcode21),
     Attr("language", IPPcode20), Attr("name", TextX), Attr("description", TextX),
     Attr("version", TextX)}

\* an XML element has no two attributes of one name
RootAttribs ==
    {<<>>} \cup {<<a>> : a \in RootAttrs}
           \cup {p \in RootAttrs \X RootAttrs : p[1].name # p[2].name}

RootChildren == {<<>>, <<InstructionElement("DEFVAR", <<49>>, <<VarArg(GFa)>>)>>}

NoRoot == Element("", <<>>, <<>>)

LoaderSources ==
    {[kind |-> "missing", root |-> NoRoot], [kind |-> "malformed", root |-> NoRoot]}
    \cup {SourceOf(Element(tag, attrib, children)) :
              tag \in RootTags, attrib \in RootAttribs, children \in RootChildren}

InitLoader ==
    \E source \in LoaderSources :
        Holds(Boot(source, FileOf(<<>>), NoStatsPath, <<>>))

NextLoader ==
    \/ Parse
    \/ Dispatch
    \/ Finish

SpecLoader == InitLoader /\ [][NextLoader]_vars

\* the classes of class Code other than SUCCESS
ErrorClasses ==
    {BAD_PARAM, OPEN_ERR, WRITE_ERR, BAD_XML, BAD_STRUCT} \cup SemanticErrors

(***************************************************************************)
(* C19: every termination with an error class has written a diagnostic     *)
(* message for it to the error output and exits with the code of the       *)
(* class, for errors raised with a message as for those raised with the    *)
(* class alone (BAD_PARAM, OPEN_ERR, WRITE_ERR, BAD_XML), for which the    *)
(* canonical message is written.                                           *)
(***************************************************************************)
C19_ErrorsPrintMessage ==
    exit_code \in ErrorClasses => stderr # <<>> /\ Last(stderr) = "Error"

\* a letter in lower case, any other character unchanged
Lower(c) == IF c \in 65..90 THEN c + 32 ELSE c

SameIgnoringCase(a, b) ==
    Len(a) = Len(b) /\ \A k \in 1..Len(a) : Lower(a[k]) = Lower(b[k])

\* the root the statement accepts
Acceptable(root) ==
    /\ root.tag = "program"
    /\ \A k \in 1..Len(root.attrib) :
           root.attrib[k].name \in {"language", "name", "description"}
    /\ \E k \in 1..Len(root.attrib) :
           /\ root.attrib[k].name = "language"
           /\ SameIgnoringCase(root.attrib[k].value, IPPcode21)

(***************************************************************************)
(* C20: the loader accepts a root element only if it is named program, its *)
(* attributes are among language, name and description, and the language   *)
(* attribute is present and equals IPPcode21 in any case; every other      *)
(* root, a program element with no attributes included, is rejected with   *)
(* BAD_STRUCT (32).                                                        *)
(***************************************************************************)
C20_RootAccepted ==
    [][exit_code = NoExit /\ xmlroot = <<>> /\ source_file.kind = "xml"
           => IF Acceptable(source_file.root)
              THEN exit_code' = NoExit /\ xmlroot' = <<source_file.root>>
              ELSE exit_code' = BAD_STRUCT]_vars

(***************************************************************************)
(* Programs over two global variables that hold strings and indices:       *)
(* copies, the data stack, TYPE and the character instructions.            *)
(***************************************************************************)
InitStrings == InitWith({NoLabels}, {FileOf(<<>>)})

\* the string "ab"
StrAB == Lit("string", <<97, 98>>)

\* the string "b"
StrB == Lit("string", <<98>>)

Indices == {Int0, Int1, Lit("int", 2), Lit("int", 0 - 1)}

Strings == {Empty, StrB, StrAB}

NextStrings ==
    \/ EndOfProgram
    \/ Within(MaxStringSteps) /\ DEFVAR(ArithVars)
    \/ Within(MaxStringSteps) /\ MOVE(ArithVars, {Int1, StrAB} \cup VarArgs(ArithVars))
    \/ Within(MaxStringSteps) /\ PUSHS(VarArgs(ArithVars))
    \/ Within(MaxStringSteps) /\ POPS(ArithVars)
    \/ Within(MaxStringSteps) /\ TYPE(ArithVars, {Nil} \cup VarArgs(ArithVars))
    \/ Within(MaxStringSteps) /\ STRI2INT({GFb}, VarArgs({GFa}), Indices)
    \/ Within(MaxStringSteps) /\ GETCHAR({GFb}, VarArgs({GFa}), Indices)
    \/ Within(MaxStringSteps) /\ SETCHAR({GFa}, Indices, Strings)

SpecStrings == InitStrings /\ [][NextStrings]_vars

\* the name of a type as TYPE stores it
TypeName(type_) ==
    CASE type_ = "int" -> <<105, 110, 116>>
      [] type_ = "float" -> <<102, 108, 111, 97, 116>>
      [] type_ = "string" -> <<115, 116, 114, 105, 110, 103>>
      [] type_ = "bool" -> <<98, 111, 111, 108>>
      [] type_ = "nil" -> <<110, 105, 108>>

(***************************************************************************)
(* C27: TYPE does not check that its source is initialized: for a defined  *)
(* variable without a value it stores the empty string in the target, for  *)
(* an initialized variable or a literal the name of the type (int, float,  *)
(* string, bool or nil); a source variable that is not defined still ends  *)
(* with UNDEF_VAR (54) and one in a frame that is not live with            *)
(* UNDEF_FRAME (55).                                                       *)
(***************************************************************************)
C27_TypeOfSource ==
    Running =>
        \A t \in ArithVars :
            Defined(t) =>
                /\ \A lit \in Literals :
                       LET after == Turn(State, Instruction("TYPE", <<VarArg(t), lit>>))
                       IN /\ after.exit_code = NoExit
                          /\ SameVar(SlotOf(after, t), Var("string", TypeName(lit.type)))
                /\ \A v \in VarIds :
                       LET after == Turn(State, Instruction("TYPE", <<VarArg(t), VarArg(v)>>))
                       IN IF ~FrameLive(v.frame) THEN after.exit_code = UNDEF_FRAME
                          ELSE IF ~Defined(v) THEN after.exit_code = UNDEF_VAR
                          ELSE /\ after.exit_code = NoExit
                               /\ SameVar(SlotOf(after, t),
                                          Var("string", IF Initialized(v)
                                                        THEN TypeName(Slot(v).type)
                                                        ELSE <<>>))

\* TYPE GF@a GF@b has stored the empty string for GF@b without a value
C27_Witness ==
    /\ inst.opcode = "TYPE"
    /\ inst.args[1].value = GFa
    /\ inst.args[2] = VarArg(GFb)
    /\ exit_code = NoExit
    /\ Defined(GFb) /\ ~Initialized(GFb)
    /\ SameVar(Slot(GFa), Var("string", <<>>))

\* the string a symbol of Strings or a string variable stands for
TextOf(symb) == IF symb.type = "var" THEN Val(Slot(symb.value)) ELSE symb.value

\* the symbols that stand for a string in the current state
StringSymbs ==
    Strings \cup {VarArg(v) : v \in {w \in ArithVars :
                                        /\ Defined(w) /\ Initialized(w)
                                        /\ Slot(w).type = "string"}}

\* index is a position of text
InRange(index, text) == 0 <= index /\ index < Len(text)

(***************************************************************************)
(* C30: with operands of the right types STRI2INT, GETCHAR and SETCHAR end *)
(* with STRING_ERR (58) exactly when the index is outside [0, length), a   *)
(* negative index never counting from the end, or when the replacement of  *)
(* SETCHAR is empty; otherwise STRI2INT stores the code point and GETCHAR  *)
(* the character at the index, and SETCHAR leaves a string of the same     *)
(* length that differs from the old one at most at the index, where it has *)
(* the first character of the replacement.                                 *)
(***************************************************************************)
C30_IndexInRange ==
    Running =>
        \A index \in Indices :
            /\ \A t \in ArithVars, symb \in StringSymbs :
                   Defined(t) =>
                       LET text == TextOf(symb)
                           ord == Turn(State, Instruction("STRI2INT",
                                                          <<VarArg(t), symb, index>>))
                           chr == Turn(State, Instruction("GETCHAR",
                                                          <<VarArg(t), symb, index>>))
                       IN IF InRange(index.value, text)
                          THEN /\ ord.exit_code = NoExit
                               /\ SameVar(SlotOf(ord, t), Var("int", text[index.value + 1]))
                               /\ chr.exit_code = NoExit
                               /\ SameVar(SlotOf(chr, t),
                                          Var("string", <<text[index.value + 1]>>))
                          ELSE /\ ord.exit_code = STRING_ERR
                               /\ chr.exit_code = STRING_ERR
            /\ \A symb \in StringSymbs, by \in StringSymbs :
                   symb.type = "var" =>
                       LET old == TextOf(symb)
                           after == Turn(State, Instruction("SETCHAR", <<symb, index, by>>))
                           new == Val(SlotOf(after, symb.value))
                       IN IF InRange(index.value, old) /\ TextOf(by) # <<>>
                          THEN /\ after.exit_code = NoExit
                               /\ SlotOf(after, symb.value).type = "string"
                               /\ Len(new) = Len(old)
                               /\ new[index.value + 1] = TextOf(by)[1]
                               /\ \A k \in 1..Len(old) :
                                      k # index.value + 1 => new[k] = old[k]
                          ELSE after.exit_code = STRING_ERR

\* GETCHAR GF@b GF@a int@-1 on the string "ab" has ended with STRING_ERR
C30_Witness ==
    /\ inst.opcode = "GETCHAR"
    /\ inst.args[3] = Lit("int", 0 - 1)
    /\ Defined(GFa) /\ Initialized(GFa)
    /\ SameVar(Slot(GFa), Var("string", <<97, 98>>))
    /\ exit_code = STRING_ERR

\* instructions that write variable t
WritesTo(t) ==
    { Instruction("MOVE", <<VarArg(t), Int0>>),
      Instruction("MOVE", <<VarArg(t), StrB>>),
      Instruction("TYPE", <<VarArg(t), Nil>>),
      Instruction("SETCHAR", <<VarArg(t), Int0, StrB>>),
      Instruction("POPS", <<VarArg(t)>>) }

\* two data stacks hold the same values
SameStack(x, y) ==
    /\ Len(x) = Len(y)
    /\ \A k \in 1..Len(x) : SameVar(x[k], y[k])

(***************************************************************************)
(* C26: MOVE copies by value: after MOVE a b with b an initialized         *)
(* variable, a holds the value of b, a later write to b leaves a with that *)
(* value and a later write to a leaves b with it.  The same holds for      *)
(* PUSHS b: the value on the data stack stays what b held when b is        *)
(* written afterwards, and a write to the variable the value is popped     *)
(* into leaves b unchanged.                                                *)
(***************************************************************************)
C26_MoveCopies ==
    Running =>
        \A a \in ArithVars, b \in ArithVars :
            (a # b /\ Defined(a) /\ Initialized(b)) =>
                LET copied == Turn(State, Instruction("MOVE", <<VarArg(a), VarArg(b)>>))
                    pushed == Turn(State, Instruction("PUSHS", <<VarArg(b)>>))
                    popped == Turn(pushed, Instruction("POPS", <<VarArg(a)>>))
                IN /\ copied.exit_code = NoExit
                   /\ SameVar(SlotOf(copied, a), Slot(b))
                   /\ SameVar(SlotOf(copied, b), Slot(b))
                   /\ \A w \in WritesTo(b) :
                          SameVar(SlotOf(Turn(copied, w), a), Slot(b))
                   /\ \A w \in WritesTo(a) :
                          SameVar(SlotOf(Turn(copied, w), b), Slot(b))
                   /\ pushed.exit_code = NoExit
                   /\ SameStack(pushed.stack, Append(stack, Slot(b)))
                   /\ SameVar(SlotOf(pushed, b), Slot(b))
                   /\ \A w \in WritesTo(b) :
                          LET after == Turn(pushed, w)
                          IN IF w.opcode = "POPS"
                             THEN /\ SameStack(after.stack, stack)
                                  /\ SameVar(SlotOf(after, b), Slot(b))
                             ELSE SameStack(after.stack, pushed.stack)
                   /\ popped.exit_code = NoExit
                   /\ SameVar(SlotOf(popped, a), Slot(b))
                   /\ \A w \in WritesTo(a) :
                          SameVar(SlotOf(Turn(popped, w), b), Slot(b))

\* MOVE GF@b GF@a has copied the string "ab" from GF@a into GF@b
C26_Witness ==
    /\ inst.opcode = "MOVE"
    /\ inst.args[1].value = GFb
    /\ inst.args[2] = VarArg(GFa)
    /\ exit_code = NoExit
    /\ Initialized(GFa) /\ Initialized(GFb)
    /\ SameVar(Slot(GFa), Var("string", <<97, 98>>))
    /\ SameVar(Slot(GFb), Slot(GFa))

(***************************************************************************)
(* Programs that divide and compare: ints of both signs, strings, bools    *)
(* and nil, given as operands and on the data stack.                       *)
(***************************************************************************)
InitCompare == InitWith({NoLabels}, {FileOf(<<>>)})

IntM3 == Lit("int", 0 - 3)
Int2 == Lit("int", 2)

DivSymbs == {IntM3, Int0, Int2, StrA}

CompareSymbs == {IntM3, Int2, StrA, True, False, Nil}

NextCompare ==
    \/ EndOfProgram
    \/ Within(MaxCompareSteps) /\ DEFVAR({GFa})
    \/ Within(MaxCompareSteps) /\ MOVE({GFa}, {IntM3, StrAB})
    \/ Within(MaxCompareSteps) /\ PUSHS({IntM3, Int0, Int2, StrA, True, False, Nil})
    \/ Within(MaxCompareSteps) /\ IDIV({GFa}, DivSymbs)
    \/ Within(MaxCompareSteps) /\ IDIVS
    \/ Within(MaxCompareSteps) /\ LT({GFa}, CompareSymbs)
    \/ Within(MaxCompareSteps) /\ LTS
    \/ Within(MaxCompareSteps) /\ GT({GFa}, CompareSymbs)
    \/ Within(MaxCompareSteps) /\ GTS
    \/ Within(MaxCompareSteps) /\ EQ({GFa}, {True, Nil, VarArg(GFa)})
    \/ Within(MaxCompareSteps) /\ EQS

SpecCompare == InitCompare /\ [][NextCompare]_vars

\* the operands the comparisons and the division are tried on in every state
CompareOperand ==
    {IntM3, Int0, Int2, Half, Empty, StrA, StrAB, True, False, Nil}
        \cup {VarArg(v) : v \in {w \in {GFa} : Initialized(w)}}

\* q is the greatest integer not above a / b
IsFloor(q, a, b) ==
    IF b > 0 THEN q * b <= a /\ a < (q + 1) * b
    ELSE q * b >= a /\ a > (q + 1) * b

\* what IDIV of the values a and b leaves in slot of the state after
Divides(after, slot, a, b) ==
    IF a.type # "int" \/ b.type # "int" THEN after.exit_code = BAD_OPERAND_TYPE
    ELSE IF Val(b) = 0 THEN after.exit_code = BAD_OPERAND_VAL
    ELSE /\ after.exit_code = NoExit
         /\ slot.type = "int"
         /\ IsFloor(Val(slot), Val(a), Val(b))

(***************************************************************************)
(* C28: IDIV and IDIVS end with BAD_OPERAND_VAL (57) when the divisor is   *)
(* the int 0 and otherwise yield the floor of a / b, rounded toward minus  *)
(* infinity also for negative operands; operands that are not both int end *)
(* with BAD_OPERAND_TYPE (53), and that is tested before the divisor is,   *)
(* so that a non-int dividend over 0 gives 53.                             *)
(***************************************************************************)
C28_FloorDivision ==
    Running =>
        \A x \in CompareOperand, y \in CompareOperand :
            LET a == ValueOf(x)
                b == ValueOf(y)
                idiv == Direct("IDIV", GFa, x, y)
                s1 == Turn(State, Instruction("PUSHS", <<x>>))
                s2 == Run(s1, Instruction("PUSHS", <<y>>))
                idivs == Run(s2, Instruction("IDIVS", <<>>))
            IN /\ Defined(GFa) => Divides(idiv, SlotOf(idiv, GFa), a, b)
               /\ Divides(idivs, Last(idivs.stack), a, b)
               /\ idivs.exit_code = NoExit => SameStack(Front(idivs.stack), stack)

\* IDIV GF@a int@-3 int@2 has stored -2
C28_Witness ==
    /\ inst.opcode = "IDIV"
    /\ inst.args[2] = IntM3
    /\ inst.args[3] = Int2
    /\ exit_code = NoExit
    /\ SameVar(Slot(GFa), Var("int", 0 - 2))

\* string a comes before string b: a is a proper prefix of b, or the first
\* code point in which they differ is the smaller one in a
Before(a, b) ==
    \E k \in 0..Len(a) :
        /\ k <= Len(b)
        /\ \A j \in 1..k : a[j] = b[j]
        /\ IF k = Len(a) THEN k < Len(b)
           ELSE k < Len(b) /\ a[k + 1] < b[k + 1]

\* what LT of the values a and b is to yield: a bool token, or None for 53
Less(a, b) ==
    IF a.type # b.type \/ a.type = "nil" THEN None
    ELSE IF a.type = "int" THEN BoolTok(Val(a) < Val(b))
    ELSE IF a.type = "bool" THEN BoolTok(Val(a) = "false" /\ Val(b) = "true")
    ELSE IF a.type = "string" THEN BoolTok(Before(Val(a), Val(b)))
    ELSE BoolTok(Val(a).n * Val(b).d < Val(b).n * Val(a).d)

\* `PUSHS x; PUSHS y; OPS`
OnStack(op, x, y) ==
    LET s1 == Turn(State, Instruction("PUSHS", <<x>>))
        s2 == Run(s1, Instruction("PUSHS", <<y>>))
    IN Run(s2, Instruction(op \o "S", <<>>))

\* the number of the given runs that went on with bool true in slot t
TrueAmong(runs, t) ==
    Cardinality({k \in DOMAIN runs :
                    /\ runs[k].exit_code = NoExit
                    /\ SameVar(SlotOf(runs[k], t), Var("bool", "true"))})

(***************************************************************************)
(* C29: LT, GT, LTS and GTS end with BAD_OPERAND_TYPE (53) when the types  *)
(* of the operands differ or either is nil.  Two operands of one type      *)
(* yield a bool: ints in numeric order, strings in the order of their code *)
(* points, bools with false < true.  GT of a and b is LT of b and a, and   *)
(* of LT, GT and EQ on the same two operands exactly one yields true.      *)
(***************************************************************************)
C29_Ordering ==
    Running =>
        \A x \in CompareOperand, y \in CompareOperand :
            LET a == ValueOf(x)
                b == ValueOf(y)
                lt == Direct("LT", GFa, x, y)
                gt == Direct("GT", GFa, x, y)
                eq == Direct("EQ", GFa, x, y)
                lts == OnStack("LT", x, y)
                gts == OnStack("GT", x, y)
            IN /\ Defined(GFa) =>
                    /\ Yields(lt, SlotOf(lt, GFa), Less(a, b))
                    /\ Yields(gt, SlotOf(gt, GFa), Less(b, a))
                    /\ Less(a, b) # None => TrueAmong(<<lt, gt, eq>>, GFa) = 1
               /\ Yields(lts, Last(lts.stack), Less(a, b))
               /\ Yields(gts, Last(gts.stack), Less(b, a))
               /\ lts.exit_code = NoExit => SameStack(Front(lts.stack), stack)
               /\ gts.exit_code = NoExit => SameStack(Front(gts.stack), stack)

\* GT GF@a bool@true bool@false has stored bool true
C29_Witness ==
    /\ inst.opcode = "GT"
    /\ inst.args[2] = True
    /\ inst.args[3] = False
    /\ exit_code = NoExit
    /\ SameVar(Slot(GFa), Var("bool", "true"))

(***************************************************************************)
(* Programs that work on the data stack and on the call stack.             *)
(***************************************************************************)
InitStacks == InitWith({OneLabel}, {FileOf(<<>>)})

NextStacks ==
    \/ EndOfProgram
    \/ Within(MaxStackSteps) /\ DEFVAR({GFa})
    \/ Within(MaxStackSteps) /\ CALL({"L", "U"})
    \/ Within(MaxStackSteps) /\ RETURN
    \/ Within(MaxStackSteps) /\ PUSHS({Int1, StrA, Nil})
    \/ Within(MaxStackSteps) /\ POPS({GFa})
    \/ Within(MaxStackSteps) /\ CLEARS
    \/ Within(MaxStackSteps) /\ ADDS
    \/ Within(MaxStackSteps) /\ JUMPIFEQS({"L", "U"})

SpecStacks == InitStacks /\ [][NextStacks]_vars

\* the instructions that take their two operands from the data stack
BinaryS ==
    {"ADDS", "SUBS", "MULS", "IDIVS", "DIVS", "LTS", "GTS", "EQS", "ANDS", "ORS",
     "STRI2INTS"}

\* the instructions that take their one operand from the data stack
UnaryS == {"NOTS", "INT2CHARS", "INT2FLOATS", "FLOAT2INTS"}

\* every instruction that works on the data stack, with the number of values
\* it takes from it
StackInstructions ==
    {[i |-> Instruction(op, <<>>), needs |-> 2] : op \in BinaryS}
        \cup {[i |-> Instruction(op, <<>>), needs |-> 1] : op \in UnaryS}
        \cup {[i |-> Instruction(op, <<LabelArg(l)>>), needs |-> 2] :
                  op \in {"JUMPIFEQS", "JUMPIFNEQS"}, l \in LabelNames}
        \cup {[i |-> Instruction("POPS", <<VarArg(v)>>), needs |-> 1] : v \in VarIds}
        \cup {[i |-> Instruction("PUSHS", <<symb>>), needs |-> 0] : symb \in Readable}
        \cup {[i |-> Instruction("CLEARS", <<>>), needs |-> 0]}

(***************************************************************************)
(* C25: POPS and every instruction that takes its operands from the data   *)
(* stack end with MISSING_VAL (56) when the stack holds fewer values than  *)
(* they take, and RETURN ends with 56 when no call is open.  The data      *)
(* stack and the call stack are separate: CALL and RETURN leave the data   *)
(* stack as it is, and PUSHS, POPS, CLEARS and the stack instructions      *)
(* leave the call stack as it is.                                          *)
(***************************************************************************)
C25_TwoStacks ==
    Running =>
        /\ \A e \in StackInstructions :
               LET after == Turn(State, e.i)
               IN /\ Len(stack) < e.needs => after.exit_code = MISSING_VAL
                  /\ Len(stack) >= e.needs => after.exit_code # MISSING_VAL
                  /\ after.calls = calls
        /\ LET after == Turn(State, Instruction("RETURN", <<>>))
           IN /\ calls = <<>> => after.exit_code = MISSING_VAL
              /\ calls # <<>> => after.exit_code = NoExit
              /\ SameStack(after.stack, stack)
        /\ \A l \in LabelNames :
               SameStack(Turn(State, Instruction("CALL", <<LabelArg(l)>>)).stack, stack)

\* JUMPIFEQS has found fewer than two values on the data stack
C25_Witness ==
    /\ inst.opcode = "JUMPIFEQS"
    /\ exit_code = MISSING_VAL

(***************************************************************************)
(* Documents for the loader: every list of up to MaxElements instruction   *)
(* elements over the shapes and the order attributes below, and two        *)
(* documents that declare a label twice around an EXIT.                    *)
(***************************************************************************)
ElementShapes ==
    {Instruction("DEFVAR", <<VarArg(GFa)>>),
     Instruction("PUSHS", <<IntText(<<49>>)>>),
     Instruction("PUSHS", <<IntText(<<49, 120>>)>>),
     Instruction("PUSHS", <<IntNoText>>),
     Instruction("LABEL", <<LabelArg("L")>>),
     Instruction("EXIT", <<IntText(<<48>>)>>)}

\* the order attributes 1, 2, 0, x and 01
OrderTexts == {<<49>>, <<50>>, <<48>>, <<120>>, <<48, 49>>}

Elements ==
    {InstructionElement(shape.opcode, order, shape.args) :
        shape \in ElementShapes, order \in OrderTexts}

\* EXIT int@0; LABEL L; LABEL L
LabelsAfterExit ==
    InOrder(<<Instruction("EXIT", <<IntText(<<48>>)>>),
              Instruction("LABEL", <<LabelArg("L")>>),
              Instruction("LABEL", <<LabelArg("L")>>)>>)

\* LABEL L; EXIT int@0; label L
LabelsAroundExit ==
    InOrder(<<Instruction("LABEL", <<LabelArg("L")>>),
              Instruction("EXIT", <<IntText(<<48>>)>>),
              Instruction("label", <<LabelArg("L")>>)>>)

Documents ==
    {ProgramOf(elements) : elements \in UNION {[1..n -> Elements] : n \in 0..MaxElements}}
    \cup {LabelsAfterExit, LabelsAroundExit}

InitElements ==
    \E root \in Documents :
        Holds(Boot(SourceOf(root), FileOf(<<>>), NoStatsPath, <<>>))

NextElements ==
    \/ Parse
    \/ Dispatch
    \/ Finish

SpecElements == InitElements /\ [][NextElements]_vars

\* the instruction elements of the source document
Children == source_file.root.children

\* main has not called parse yet
Unparsed == exit_code = NoExit /\ xmlroot = <<>>

\* an int argument without text, or with a text that is no decimal integer
BadIntText(arg) ==
    arg.type = "int" /\ (arg.value = <<>> \/ ~DecimalInteger(arg.value[1]))

\* the element has an int argument without text
HasIntNoText(element) ==
    \E k \in 1..Len(element.args) :
        element.args[k].type = "int" /\ element.args[k].value = <<>>

HasBadIntText(element) ==
    \E k \in 1..Len(element.args) : BadIntText(element.args[k])

(***************************************************************************)
(* C21: a document in which an operand of type int has no text or a text   *)
(* that is no decimal integer is rejected by the loader with BAD_STRUCT     *)
(* (32): the process exits with no other code and with no uncaught         *)
(* failure, and the program is not loaded.                                 *)
(***************************************************************************)
C21_IntOperandText ==
    (\E k \in 1..Len(Children) : HasBadIntText(Children[k])) =>
        /\ xmlroot = <<>>
        /\ exit_code \in {NoExit, BAD_STRUCT}

\* the text is a decimal integer of at least 1
PositiveOrder(text) == DecimalInteger(text) /\ DecimalValue(text) >= 1

\* the order attribute of the k-th element is no positive integer, or the
\* integer is the order of an element before it
BadOrderAt(children, k) ==
    \/ ~PositiveOrder(children[k].order)
    \/ \E j \in 1..(k - 1) :
           /\ PositiveOrder(children[j].order)
           /\ DecimalValue(children[j].order) = DecimalValue(children[k].order)

\* the place of the k-th element among the elements by ascending order
Rank(children, k) ==
    1 + Cardinality({j \in 1..Len(children) :
                        DecimalValue(children[j].order) < DecimalValue(children[k].order)})

\* the instruction an element stands for
Loaded(element) ==
    Instruction(OpcodeUpper(element.opcode),
                [k \in 1..Len(element.args) |->
                    IF element.args[k].type = "int"
                    THEN Lit("int", DecimalValue(element.args[k].value[1]))
                    ELSE element.args[k]])

\* the program the loader has built is the elements by ascending order
InAscendingOrder(program, children) ==
    /\ Len(program) = Len(children)
    /\ \A k \in 1..Len(children) : program[Rank(children, k)] = Loaded(children[k])

DuplicateLabel(children) ==
    \E j \in 1..Len(children), k \in 1..Len(children) :
        /\ j # k
        /\ OpcodeUpper(children[j].opcode) = "LABEL"
        /\ OpcodeUpper(children[k].opcode) = "LABEL"
        /\ children[j].args = children[k].args

(***************************************************************************)
(* C24: a document the loader otherwise accepts in which two LABEL         *)
(* instructions declare the same label ends with UNDEF_REDEF (52) at load  *)
(* time: no instruction has been executed, also when the second            *)
(* declaration could never be reached by the run of the program.           *)
(***************************************************************************)
C24_LabelDeclaredTwice ==
    (/\ DuplicateLabel(Children)
     /\ \A k \in 1..Len(Children) :
            ~BadOrderAt(Children, k) /\ ~HasBadIntText(Children[k])) =>
        /\ xmlroot = <<>>
        /\ exit_code \in {NoExit, UNDEF_REDEF}
        /\ executed_count = 0
        /\ inst = NoInst
        /\ Unparsed => parse(State).exit_code = UNDEF_REDEF

\* EXIT int@0; LABEL L; LABEL L has ended with UNDEF_REDEF
C24_Witness ==
    /\ source_file.root = LabelsAfterExit
    /\ exit_code = UNDEF_REDEF
    /\ executed_count = 0

\* the document with every opcode attribute written in upper case
InUpperCase(root) ==
    [root EXCEPT !.children =
        [k \in 1..Len(@) |-> [@[k] EXCEPT !.opcode = OpcodeUpper(@)]]]

\* the state of the run of the program that differs from the one of s in
\* the case of the letters of its opcodes only
Twin(s) ==
    [s EXCEPT !.xmlroot = <<InUpperCase(s.xmlroot[1])>>,
              !.source_file = SourceOf(InUpperCase(s.xmlroot[1]))]

\* one iteration of the loop of interpret from state s
Iteration(s) ==
    IF s.pc < Len(instructions(s)) THEN Turn(s, instructions(s)[s.pc + 1])
    ELSE end_of_program(s)

(***************************************************************************)
(* C22: opcodes are matched without regard to the case of their letters:   *)
(* of two programs that differ only in the case of opcode letters every    *)
(* step of the one leaves the exit code and the statistics file (insts,    *)
(* vars, hot) that the same step of the other leaves.                      *)
(***************************************************************************)
C22_OpcodeCase ==
    [][exit_code = NoExit /\ xmlroot # <<>> =>
           LET twin == Iteration(Twin(State))
           IN /\ exit_code' = twin.exit_code
              /\ stats_file' = twin.stats_file
              /\ executed_count' = twin.executed_count
              /\ init_vars' = twin.init_vars]_vars

(***************************************************************************)
(* Programs that build frames, define variables in them and fill them from *)
(* literals, from other variables and from an input that has a line or is  *)
(* at its end.                                                             *)
(***************************************************************************)
InitSlots ==
    InitWith({NoLabels},
             {FileOf(<<>>), FileOf(<<<<49>>>>), StdinOf(<<>>), StdinOf(<<<<97>>>>)})

SlotVars == {GFa, TFa, LFa}

NextSlots ==
    \/ EndOfProgram
    \/ Within(MaxSlotSteps) /\ CREATEFRAME
    \/ Within(MaxSlotSteps) /\ PUSHFRAME
    \/ Within(MaxSlotSteps) /\ POPFRAME
    \/ Within(MaxSlotSteps) /\ DEFVAR(SlotVars)
    \/ Within(MaxSlotSteps) /\ MOVE(SlotVars, {StrA, VarArg(GFa)})
    \/ Within(MaxSlotSteps) /\ READ(SlotVars, {"int", "string"})
    \/ Within(MaxSlotSteps) /\ TYPE({GFa}, VarArgs({TFa, LFa}))

SpecSlots == InitSlots /\ [][NextSlots]_vars

\* every dict of variables the interpreter holds: GF, TF and the local frames
AllFrames == {gf, tf} \cup {lf_stack[k] : k \in 1..Len(lf_stack)}

\* the test of getvar for a read: type or value is None
ReadSeesUninitialized(var) == var.type = None \/ var.value = <<>>

\* the test of the vars statistic: value is None
CountSeesUninitialized(var) == var.value = <<>>

(***************************************************************************)
(* C31: in every reachable state every variable of every frame (GF, TF and *)
(* each local frame on the stack) is either uninitialized, with neither a  *)
(* type nor a value, or initialized, with a type among int, float, string, *)
(* bool and nil and with a value; so the test for a read (type or value    *)
(* absent) and the test of the vars count (value absent) agree on it.      *)
(***************************************************************************)
C31_SlotsWellFormed ==
    \A frame \in AllFrames :
        \A n \in DOMAIN frame :
            /\ \/ frame[n].type = None /\ frame[n].value = <<>>
               \/ /\ frame[n].type \in {"int", "float", "string", "bool", "nil"}
                  /\ frame[n].value # <<>>
            /\ ReadSeesUninitialized(frame[n]) <=> CountSeesUninitialized(frame[n])

\* READ of an int at the end of the input has stored nil in LF@a
C31_Witness ==
    /\ inst.opcode = "READ"
    /\ inst.args[1].value = LFa
    /\ exit_code = NoExit
    /\ Defined(LFa)
    /\ SameVar(Slot(LFa), Var("nil", "nil"))

(***************************************************************************)
(* C32: in every reachable state in which the temporary frame does not     *)
(* exist (the TF-exists flag is false) the stored TF mapping is empty, so  *)
(* the variables of a frame that PUSHFRAME moved to the local-frame stack  *)
(* are not counted or shown as variables of TF as well.                    *)
(***************************************************************************)
C32_NoTfNoVariables ==
    ~tf_created =>
        /\ tf = EmptyFrame
        /\ DOMAIN tf = {}
        /\ InitializedIn(tf) = {}

\* PUSHFRAME has moved a frame holding an initialized variable to the stack
C32_Witness ==
    /\ inst.opcode = "PUSHFRAME"
    /\ exit_code = NoExit
    /\ ~tf_created
    /\ Len(lf_stack) > 0
    /\ InitializedIn(lf_stack[Len(lf_stack)]) # {}

\* the instructions <var> <symb> <symb>
ThreeAddress ==
    {"ADD", "SUB", "MUL", "IDIV", "DIV", "LT", "GT", "EQ", "AND", "OR",
     "CONCAT", "GETCHAR", "SETCHAR", "STRI2INT"}

\* the instructions <var> <symb>
TwoAddress ==
    {"MOVE", "NOT", "INT2CHAR", "INT2FLOAT", "FLOAT2INT", "STRLEN", "TYPE"}

\* the instructions without an operand
NoAddress ==
    {"CREATEFRAME", "PUSHFRAME", "POPFRAME", "RETURN", "CLEARS", "BREAK"}
        \cup BinaryS \cup UnaryS

\* every opcode of the dispatcher with operands among the variables vs, the
\* symbols ss and the label L
InstructionsOver(vs, ss) ==
    {Instruction(op, <<VarArg(v), x, y>>) :
        op \in ThreeAddress, v \in vs, x \in ss, y \in ss}
    \cup {Instruction(op, <<VarArg(v), x>>) : op \in TwoAddress, v \in vs, x \in ss}
    \cup {Instruction(op, <<VarArg(v)>>) : op \in {"DEFVAR", "POPS"}, v \in vs}
    \cup {Instruction("READ", <<VarArg(v), TypeArg(t)>>) : v \in vs, t \in Types}
    \cup {Instruction(op, <<x>>) : op \in {"PUSHS", "WRITE", "EXIT", "DPRINT"}, x \in ss}
    \cup {Instruction(op, <<LabelArg("L")>>) :
            op \in {"LABEL", "JUMP", "CALL", "JUMPIFEQS", "JUMPIFNEQS"}}
    \cup {Instruction(op, <<LabelArg("L"), x, y>>) :
            op \in {"JUMPIFEQ", "JUMPIFNEQ"}, x \in ss, y \in ss}
    \cup {Instruction(op, <<>>) : op \in NoAddress}

\* frame k of the local-frame stack is the same dict before and after
Untouched(before, after, k) ==
    /\ k <= Len(after.lf_stack)
    /\ SameFrame(after.lf_stack[k], before.lf_stack[k])

(***************************************************************************)
(* C34: the local-frame stack changes its height only by PUSHFRAME, which  *)
(* puts TF on top of it, and by POPFRAME, which takes its top frame into   *)
(* TF; and no instruction changes a local frame that is not the top of the *)
(* stack: every frame below the top is the same after the instruction, and *)
(* PUSHFRAME leaves the frame it covers the same too.  Hence the frame     *)
(* that POPFRAME brings back to the top holds what it held when PUSHFRAME  *)
(* covered it.                                                             *)
(***************************************************************************)
C34_CoveredFramesKept ==
    Running =>
        \A i \in InstructionsOver({TFa, LFa}, {Int1, StrA, VarArg(LFa)}) :
            LET after == Turn(State, i)
                height == Len(lf_stack)
            IN /\ \A k \in 1..(height - 1) : Untouched(State, after, k)
               /\ Len(after.lf_stack) # height =>
                    \/ /\ i.opcode = "PUSHFRAME"
                       /\ Len(after.lf_stack) = height + 1
                       /\ SameFrame(Last(after.lf_stack), tf)
                       /\ \A k \in 1..height : Untouched(State, after, k)
                    \/ /\ i.opcode = "POPFRAME"
                       /\ Len(after.lf_stack) = height - 1
                       /\ SameFrame(after.tf, Last(lf_stack))

\* POPFRAME has brought back to the top a frame whose variable was given a
\* value before PUSHFRAME covered it
C34_Witness ==
    /\ inst.opcode = "POPFRAME"
    /\ exit_code = NoExit
    /\ Len(lf_stack) > 0
    /\ InitializedIn(Last(lf_stack)) # {}

(***************************************************************************)
(* Whole programs of up to MaxProgramLen instructions that declare labels, *)
(* jump, call and return; label L or M may be declared, used or both.      *)
(***************************************************************************)
ProgramShapes ==
    {Instruction("DEFVAR", <<VarArg(GFa)>>),
     Instruction("LABEL", <<LabelArg("L")>>),
     Instruction("LABEL", <<LabelArg("M")>>),
     Instruction("JUMP", <<LabelArg("L")>>),
     Instruction("JUMPIFEQ", <<LabelArg("L"), IntText(<<49>>), IntText(<<49>>)>>),
     Instruction("CALL", <<LabelArg("M")>>),
     Instruction("RETURN", <<>>),
     Instruction("EXIT", <<IntText(<<48>>)>>)}

Programs ==
    {InOrder(shapes) : shapes \in UNION {[1..n -> ProgramShapes] : n \in 0..MaxProgramLen}}

InitPrograms ==
    \E root \in Programs :
        LET s == parse(Boot(SourceOf(root), FileOf(<<>>), NoStatsPath, <<>>))
        IN s.exit_code = NoExit /\ Holds(s)

NextPrograms ==
    \/ Within(MaxProgramSteps) /\ Dispatch
    \/ Finish

SpecPrograms == InitPrograms /\ [][NextPrograms]_vars

\* len(self._instructions)
ProgramLen == Len(instructions(State))

\* the instructions that go to label l when they are taken
JumpsTo(l) ==
    {Instruction("JUMP", <<LabelArg(l)>>),
     Instruction("CALL", <<LabelArg(l)>>),
     Instruction("JUMPIFEQ", <<LabelArg(l), Int1, Int1>>),
     Instruction("JUMPIFNEQ", <<LabelArg(l), Int0, Int1>>)}

\* the one-based place of the LABEL that declares l
LabelPlace(l) ==
    CHOOSE k \in 1..ProgramLen :
        /\ instructions(State)[k].opcode = "LABEL"
        /\ instructions(State)[k].args[1].value = l

(***************************************************************************)
(* C33: in every reachable state 0 <= pc <= len(program); every entry of   *)
(* the label map and every position saved on the call stack lies in        *)
(* 1..len(program); each label maps to the index right after its LABEL     *)
(* instruction, so a jump or call that is taken continues behind the LABEL *)
(* and never dispatches the LABEL itself, and a jump to a LABEL that is    *)
(* the last instruction leaves the loop, which ends the program with       *)
(* SUCCESS.                                                                *)
(***************************************************************************)
C33_PositionsInRange ==
    xmlroot # <<>> =>
        /\ pc \in 0..ProgramLen
        /\ \A k \in 1..Len(calls) : calls[k] \in 1..ProgramLen
        /\ \A l \in DOMAIN labels :
            /\ labels[l] \in 1..ProgramLen
            /\ instructions(State)[labels[l]] = Instruction("LABEL", <<LabelArg(l)>>)
            /\ labels[l] = LabelPlace(l)
            /\ exit_code = NoExit /\ pc < ProgramLen =>
                \A i \in JumpsTo(l) :
                    LET after == Turn(State, i)
                    IN /\ after.exit_code = NoExit
                       /\ after.pc = LabelPlace(l)
                       /\ after.pc = ProgramLen =>
                            end_of_program(after).exit_code = SUCCESS
                       /\ after.pc < ProgramLen =>
                            instructions(State)[after.pc + 1]
                                = instructions(State)[LabelPlace(l) + 1]

\* JUMP went to a LABEL that is the last instruction and the program has
\* ended with SUCCESS
C33_Witness ==
    /\ xmlroot # <<>>
    /\ exit_code = SUCCESS
    /\ inst.opcode = "JUMP"
    /\ pc = ProgramLen
    /\ pc = labels[inst.args[1].value]
    /\ instructions(State)[ProgramLen].opcode = "LABEL"

(***************************************************************************)
(* The same programs with a loop that is never starved.  interpret is one  *)
(* sequential loop, so whenever it can take a turn it takes one.  A turn   *)
(* is possible exactly when the process has not exited and either next()   *)
(* has an instruction left, or it has none and the statistics are written. *)
(* Every turn changes pc, the executed count or the exit code: next() adds *)
(* one to both counters, and only a jump can put pc back, which leaves the *)
(* count one higher.  The fairness below is stated on these changes.       *)
(***************************************************************************)
\* the number of instruction elements, each of which parse has added
ElementCount == Len(xmlroot[1].children)

CanTurn ==
    /\ exit_code = NoExit
    /\ xmlroot # <<>>
    /\ executed_count < MaxProgramSteps \/ pc >= ElementCount

\* the variables of which every turn changes one
turn == <<pc, executed_count, exit_code>>

\* a turn of the loop, by the variables it changes
LoopTurn ==
    /\ CanTurn
    /\ pc' \in 0..ElementCount
    /\ executed_count' \in 0..MaxProgramSteps
    /\ exit_code' \in NoExit..STRING_ERR
    /\ turn' # turn

SpecProgramsFair == SpecPrograms /\ WF_turn(LoopTurn)

\* the instructions that can set the program counter
Jumping ==
    {"JUMP", "JUMPIFEQ", "JUMPIFNEQ", "JUMPIFEQS", "JUMPIFNEQS", "CALL", "RETURN"}

\* the parsed program holds no instruction that can set the program counter
JumpFree ==
    /\ xmlroot # <<>>
    /\ \A k \in 1..ElementCount :
        OpcodeUpper(xmlroot[1].children[k].opcode) \notin Jumping

\* the parsed program is LABEL L; JUMP L
LabelJump ==
    /\ xmlroot # <<>>
    /\ ElementCount = 2
    /\ instructions(State) = <<Instruction("LABEL", <<LabelArg("L")>>),
                               Instruction("JUMP", <<LabelArg("L")>>)>>

Terminated == exit_code # NoExit

(***************************************************************************)
(* C36: the loop runs while pc < len(program).  A program without JUMP,    *)
(* JUMPIFEQ, JUMPIFNEQ, JUMPIFEQS, JUMPIFNEQS, CALL and RETURN dispatches  *)
(* its instructions in ascending order, each at most once (every dispatch  *)
(* takes the instruction at pc and leaves pc one higher, and pc never      *)
(* passes len(program)), and it terminates, so it terminates after at most *)
(* len(program) dispatches.  The program LABEL L; JUMP L never terminates: *)
(* the loop condition holds in each of its states, and each iteration      *)
(* after the first dispatches the JUMP and adds one to the executed count. *)
(* Every step of the loop is a turn as the fairness condition has it.      *)
(***************************************************************************)
C36_Termination ==
    /\ [][LoopTurn]_vars
    /\ [](xmlroot # <<>> => ElementCount = ProgramLen)
    /\ [](JumpFree => pc <= ProgramLen /\ executed_count <= pc)
    /\ [][JumpFree /\ pc' # pc =>
            /\ pc < ProgramLen
            /\ pc' = pc + 1
            /\ inst' = instructions(State)[pc + 1]]_vars
    /\ (JumpFree ~> Terminated)
    /\ [](LabelJump => ~Terminated /\ pc < ProgramLen)
    /\ [][LabelJump /\ pc > 0 =>
            /\ inst'.opcode = "JUMP"
            /\ pc' = 1
            /\ executed_count' = executed_count + 1]_vars

\* LABEL L; JUMP L has gone round three times and is still running
C36_Witness ==
    /\ LabelJump
    /\ inst.opcode = "JUMP"
    /\ executed_count = 3
    /\ pc = 1
    /\ exit_code = NoExit

(***************************************************************************)
(* Programs that compute into a destination that may be missing: GF@a is   *)
(* the only variable ever defined, GF@b is undefined, TF@a is undefined    *)
(* and its frame exists only after CREATEFRAME.                            *)
(***************************************************************************)
InitOperands == InitWith({NoLabels}, {FileOf(<<>>)})

Destinations == {GFa, GFb, TFa}

NextOperands ==
    \/ EndOfProgram
    \/ Within(MaxOperandSteps) /\ DEFVAR({GFa})
    \/ Within(MaxOperandSteps) /\ MOVE({GFa}, {Int0, StrA})
    \/ Within(MaxOperandSteps) /\ CREATEFRAME
    \/ Within(MaxOperandSteps) /\ ADD(Destinations, {Int1, StrA, VarArg(GFa)})
    \/ Within(MaxOperandSteps) /\ IDIV(Destinations, {Int0, Int1})
    \/ Within(MaxOperandSteps) /\ GETCHAR(Destinations, {VarArg(GFa)}, {Int0, Int1})

SpecOperands == InitOperands /\ [][NextOperands]_vars

\* the instructions <var> <symb> <symb> that read both sources before they
\* write the destination
Computing3 == ThreeAddress \ {"SETCHAR"}

\* the instructions <var> <symb> of the same kind
Computing2 == {"NOT", "INT2CHAR", "INT2FLOAT", "FLOAT2INT", "STRLEN"}

\* sources of every type, an uninitialized or initialized variable and an
\* undefined one
SourceSymbs == {Int0, Int1, Half, StrA, True, Lit("int", 0 - 1), VarArg(GFa), VarArg(GFb)}

\* what setvar reports for a destination it cannot write
DestinationError(id) == IF FrameLive(id.frame) THEN UNDEF_VAR ELSE UNDEF_FRAME

\* the exit code with destination id, given the turn with a destination that
\* can be written
OperandsFirst(good, bad, id) ==
    /\ good.exit_code \in {NoExit, BAD_OPERAND_TYPE, UNDEF_VAR, UNDEF_FRAME,
                            MISSING_VAL, BAD_OPERAND_VAL, STRING_ERR}
    /\ bad.exit_code = IF good.exit_code # NoExit THEN good.exit_code
                       ELSE DestinationError(id)

(***************************************************************************)
(* C35: ADD, SUB, MUL, IDIV, DIV, LT, GT, EQ, AND, OR, NOT, CONCAT,        *)
(* STRLEN, GETCHAR, STRI2INT, INT2CHAR, INT2FLOAT and FLOAT2INT read and   *)
(* check their sources before they look the destination up.  With a        *)
(* destination that is undefined or in a frame that does not exist, the    *)
(* run ends with the error of the sources (53, 54, 55, 56, 57 or 58)       *)
(* whenever the same instruction with the defined destination GF@a ends    *)
(* with one, and with the error of the destination (54 or 55) only when    *)
(* the same instruction with GF@a succeeds.                                *)
(***************************************************************************)
C35_SourcesBeforeDestination ==
    Running /\ Defined(GFa) =>
        \A id \in {d \in Destinations : ~Defined(d)} :
            /\ \A op \in Computing3, x \in SourceSymbs, y \in SourceSymbs :
                OperandsFirst(Turn(State, Instruction(op, <<VarArg(GFa), x, y>>)),
                              Turn(State, Instruction(op, <<VarArg(id), x, y>>)), id)
            /\ \A op \in Computing2, x \in SourceSymbs :
                OperandsFirst(Turn(State, Instruction(op, <<VarArg(GFa), x>>)),
                              Turn(State, Instruction(op, <<VarArg(id), x>>)), id)

\* IDIV by zero into the undefined GF@b has ended with BAD_OPERAND_VAL
C35_Witness ==
    /\ inst = Instruction("IDIV", <<VarArg(GFb), Int1, Int0>>)
    /\ exit_code = BAD_OPERAND_VAL
    /\ ~Defined(GFb)

====
